---- MODULE Spec2Model ----
(***************************************************************************)
(* Model of cornucopia's query preparation (src/src/prepare_queries.rs):   *)
(* prepare / prepare_module / prepare_query and the interning operations   *)
(* of PreparedModule (add_row, add_param, add_query).                      *)
(*                                                                         *)
(* Strings are sequences of one-character strings so that sorting by name  *)
(* and UpperCamelCase are computed, not assumed.  Indices are 0-based as   *)
(* in the Rust code; a sequence s is read at index i as s[i + 1].          *)
(***************************************************************************)
EXTENDS Integers, Sequences, FiniteSets, TLC

(***************************************************************************)
(* Bounds                                                                  *)
(***************************************************************************)
\* Largest number of queries in the validated module handed to prepare.
MaxQueries == 2

(***************************************************************************)
(* Characters and names                                                    *)
(***************************************************************************)
Lowers == <<"a","b","c","d","e","f","g","h","i","j","k","l","m",
            "n","o","p","q","r","s","t","u","v","w","x","y","z">>
Uppers == <<"A","B","C","D","E","F","G","H","I","J","K","L","M",
            "N","O","P","Q","R","S","T","U","V","W","X","Y","Z">>

IsLower(c) == \E i \in 1..Len(Lowers) : Lowers[i] = c
IsUpper(c) == \E i \in 1..Len(Uppers) : Uppers[i] = c
LetterIdx(c) == CHOOSE i \in 1..Len(Lowers) : Lowers[i] = c \/ Uppers[i] = c
ToUpper(c) == IF IsLower(c) THEN Uppers[LetterIdx(c)] ELSE c
ToLower(c) == IF IsUpper(c) THEN Lowers[LetterIdx(c)] ELSE c

\* Byte value of a character (ASCII); "_" is the only non-letter used.
Ord(c) == IF IsUpper(c) THEN 64 + LetterIdx(c)
          ELSE IF IsLower(c) THEN 96 + LetterIdx(c)
          ELSE 95

\* a.cmp(b) == Less on strings: lexicographic order on bytes.
RECURSIVE StrLess(_, _)
StrLess(a, b) ==
    IF b = <<>> THEN FALSE
    ELSE IF a = <<>> THEN TRUE
    ELSE IF Ord(Head(a)) # Ord(Head(b)) THEN Ord(Head(a)) < Ord(Head(b))
    ELSE StrLess(Tail(a), Tail(b))

\* heck's to_upper_camel_case: words are split at non-alphanumeric
\* characters, at a lowercase-to-uppercase step, and before the last capital
\* of a run of capitals that is followed by a lowercase letter; every word
\* is written with its first letter in upper case and the rest in lower case.
RECURSIVE CamelFrom(_, _, _)
CamelFrom(s, i, start) ==
    IF i > Len(s) THEN <<>>
    ELSE LET c == s[i]
             isLetter == IsLower(c) \/ IsUpper(c)
             boundaryAfter ==
                 /\ isLetter
                 /\ i < Len(s)
                 /\ \/ IsLower(c) /\ IsUpper(s[i + 1])
                    \/ /\ IsUpper(c) /\ IsUpper(s[i + 1])
                       /\ i + 1 < Len(s) /\ IsLower(s[i + 2])
         IN  IF ~isLetter THEN CamelFrom(s, i + 1, TRUE)
             ELSE <<IF start THEN ToUpper(c) ELSE ToLower(c)>>
                  \o CamelFrom(s, i + 1, boundaryAfter)

to_upper_camel_case(s) == CamelFrom(s, 1, TRUE)

ParamsSuffix == <<"P","a","r","a","m","s">>

(***************************************************************************)
(* Types and the type registrar                                            *)
(***************************************************************************)
\* Types the database reports for parameters and columns, by name.  The
\* builtin scalars "int4" and "text"; "anyrange", outside the registrar's
\* closed set of supported types; and the user-defined types of PgType.
CopyTypes == {"int4"}
SupportedTypes == {"int4", "text"}
AllTypes == SupportedTypes \cup {"anyrange"}

\* Option::None and Option::Some(value)
None == [tag |-> "None"]
Some(value) == [tag |-> "Some", value |-> value]

\* The set of elements of a sequence
Range(s) == {s[i] : i \in 1..Len(s)}

\* postgres_types::Type: schema(), name() and kind() of a type.  The
\* composite "person" declares its attributes in the order n, a, p; "mood"
\* and "status" are enums of two schemas, "posint" a domain over int4,
\* "_mood" the array of mood.
PgType(ty) ==
    CASE ty = "mood" ->
           [schema |-> "public", name |-> <<"m","o","o","d">>, kind |-> "Enum",
            variants |-> <<"sad", "ok", "happy">>]
      [] ty = "status" ->
           [schema |-> "app", name |-> <<"s","t","a","t","u","s">>, kind |-> "Enum",
            variants |-> <<"on", "off">>]
      [] ty = "posint" ->
           [schema |-> "public", name |-> <<"p","o","s","i","n","t">>,
            kind |-> "Domain", inner |-> "int4"]
      [] ty = "person" ->
           [schema |-> "app", name |-> <<"p","e","r","s","o","n">>,
            kind |-> "Composite",
            fields |-> <<[name |-> <<"n">>, ty |-> "text"],
                         [name |-> <<"a">>, ty |-> "int4"],
                         [name |-> <<"p">>, ty |-> "mood"]>>]
      [] ty = "_mood" ->
           [schema |-> "public", name |-> <<"_","m","o","o","d">>, kind |-> "Array",
            inner |-> "mood"]
      [] ty = "anyrange" ->
           [schema |-> "pg_catalog", name |-> <<"a","n","y","r","a","n","g","e">>,
            kind |-> "Pseudo"]
      [] ty = "text" ->
           [schema |-> "pg_catalog", name |-> <<"t","e","x","t">>, kind |-> "Simple"]
      [] OTHER ->
           [schema |-> "pg_catalog", name |-> <<"i","n","t","4">>, kind |-> "Simple"]

CustomTypes == {"mood", "status", "person"}
UserTypes == CustomTypes \cup {"posint", "_mood"}

\* CornucopiaType::is_copy of a type with the description pg: fixed for the
\* builtin scalars, TRUE for an enum, the conjunction over the fields of a
\* composite, inherited by a domain, FALSE for an array.
RECURSIVE TypeIsCopy(_)
IsCopyOf(ty, pg) ==
    CASE pg.kind = "Enum" -> TRUE
      [] pg.kind = "Domain" -> TypeIsCopy(pg.inner)
      [] pg.kind = "Composite" -> \A i \in 1..Len(pg.fields) : TypeIsCopy(pg.fields[i].ty)
      [] pg.kind = "Array" -> FALSE
      [] OTHER -> ty \in CopyTypes

TypeIsCopy(ty) == IsCopyOf(ty, PgType(ty))

\* CornucopiaType::is_params
RECURSIVE TypeIsParams(_)
IsParamsOf(pg) ==
    CASE pg.kind = "Domain" -> TypeIsParams(pg.inner)
      [] pg.kind = "Composite" ->
           \A i \in 1..Len(pg.fields) : TypeIsParams(pg.fields[i].ty)
      [] pg.kind = "Array" -> FALSE
      [] OTHER -> TRUE

TypeIsParams(ty) == IsParamsOf(PgType(ty))

\* The types a type refers to: the element type of an array, the base type
\* of a domain, the field types of a composite
InnerOf(pg) ==
    CASE pg.kind \in {"Array", "Domain"} -> <<pg.inner>>
      [] pg.kind = "Composite" -> [i \in 1..Len(pg.fields) |-> pg.fields[i].ty]
      [] OTHER -> <<>>

InnerTypes(ty) == InnerOf(PgType(ty))

\* The concatenation of the sequences of a sequence
RECURSIVE Concat(_)
Concat(ss) == IF ss = <<>> THEN <<>> ELSE Head(ss) \o Concat(Tail(ss))

\* The types that register visits for a type, in the order in which it
\* inserts them: the types a type refers to come before the type itself
RECURSIVE RegistrationOrder(_)
OrderOf(ty, inner) ==
    Concat([i \in 1..Len(inner) |-> RegistrationOrder(inner[i])]) \o <<ty>>

RegistrationOrder(ty) == OrderOf(ty, InnerTypes(ty))

\* The insertions of register, up to the first unsupported type: a type
\* that is in the table already is not inserted again
RECURSIVE InsertAll(_, _)
InsertAll(registrar, tys) ==
    IF tys = <<>> THEN [tag |-> "Ok", registrar |-> registrar]
    ELSE IF Head(tys) \notin SupportedTypes \cup UserTypes
    THEN [tag |-> "Err", registrar |-> registrar,
          err |-> [tag |-> "PostgresType", ty |-> Head(tys)]]
    ELSE InsertAll(IF Head(tys) \in Range(registrar) THEN registrar
                   ELSE Append(registrar, Head(tys)),
                   Tail(tys))

\* TypeRegistrar::register: idempotent, keeps registration order, registers
\* the types a type refers to before the type itself, fails on an
\* unsupported type.  The registrar is the sequence of the keys of the
\* registered types.
register(registrar, ty) == InsertAll(registrar, RegistrationOrder(ty))

\* The entry of the registrar's table for a registered type with the
\* description pg
EntryOfType(ty, pg) ==
    CASE pg.kind = "Simple" ->
           [variant |-> "Simple", pg_ty |-> ty, is_copy |-> TypeIsCopy(ty)]
      [] pg.kind = "Array" -> [variant |-> "Array", inner |-> pg.inner]
      [] pg.kind = "Domain" -> [variant |-> "Domain", pg_ty |-> ty, inner |-> pg.inner]
      [] OTHER ->
           [variant |-> "Custom", pg_ty |-> ty,
            struct_name |-> to_upper_camel_case(pg.name),
            is_copy |-> TypeIsCopy(ty), is_params |-> TypeIsParams(ty)]

CornucopiaType(ty) == EntryOfType(ty, PgType(ty))

(***************************************************************************)
(* Helpers of the validation and utils modules                             *)
(***************************************************************************)
\* utils::has_duplicate(iter, |col| col.name()): the first item whose name
\* was already seen, or None.
has_duplicate(cols) ==
    LET dups == {j \in 1..Len(cols) : \E i \in 1..(j - 1) : cols[i].name = cols[j].name}
    IN  IF dups = {} THEN None
        ELSE [tag |-> "Some",
              value |-> cols[CHOOSE j \in dups : \A k \in dups : j <= k]]

\* validation::nullable_column_name and validation::nullable_param_name:
\* the nullable identifier must name one of the statement's columns (one of
\* the bind parameters).
nullable_column_name(nullable_col, stmt_cols) ==
    \E i \in 1..Len(stmt_cols) : stmt_cols[i].name = nullable_col

\* A variant of FirstUnknown that accepts every nullable identifier
FirstUnknown_Never(idents, items) == None

\* The loop over the nullable identifiers with the ? operator: the first
\* identifier of the list that fails the check, or None.
FirstUnknown(idents, items) ==
    LET bad == {i \in 1..Len(idents) : ~nullable_column_name(idents[i], items)}
    IN  IF bad = {} THEN None
        ELSE [tag |-> "Some", value |-> idents[CHOOSE i \in bad : \A k \in bad : i <= k]]

\* validation::unknown_named_struct: the nullable identifiers declared for
\* the named struct in the given annotation list, or None if not declared.
unknown_named_struct(name, types) ==
    LET found == {i \in 1..Len(types) : types[i].name = name}
    IN  IF found = {} THEN None
        ELSE [tag |-> "Some",
              value |-> types[CHOOSE i \in found : \A k \in found : i <= k].idents]

\* validation::named_struct_field: the stored fields and the submitted
\* fields are the same fields, in any order.
named_struct_field(prev, new) ==
    /\ Len(prev) = Len(new)
    /\ \A i \in 1..Len(prev) : prev[i] \in Range(new)
    /\ \A i \in 1..Len(new) : new[i] \in Range(prev)

(***************************************************************************)
(* Prepared data                                                           *)
(***************************************************************************)
\* A variant of PreparedField that copies the nullability to the inner
\* nullability
PreparedField_InnerNullable(name, ty, is_nullable) ==
    [name |-> name, ty |-> ty, is_nullable |-> is_nullable,
     is_inner_nullable |-> is_nullable]

\* PreparedField { name, ty, is_nullable, is_inner_nullable: false }
PreparedField(name, ty, is_nullable) ==
    [name |-> name, ty |-> ty, is_nullable |-> is_nullable,
     is_inner_nullable |-> FALSE]

\* A variant of AllCopy that is satisfied by one copy field
AllCopy_Any(fields) == \E i \in 1..Len(fields) : TypeIsCopy(fields[i].ty)

\* fields.iter().all(|f| f.ty.is_copy())
AllCopy(fields) == \A i \in 1..Len(fields) : TypeIsCopy(fields[i].ty)

\* tmp.sort_unstable_by(|a, b| a.name.cmp(&b.name)), as an insertion sort.
\* Fields with the same name keep their relative order.
RECURSIVE InsertByName(_, _)
InsertByName(sorted, f) ==
    IF sorted = <<>> THEN <<f>>
    ELSE IF StrLess(f.name, Head(sorted).name) THEN <<f>> \o sorted
    ELSE <<Head(sorted)>> \o InsertByName(Tail(sorted), f)

RECURSIVE SortByName(_)
SortByName(fields) ==
    IF fields = <<>> THEN <<>>
    ELSE InsertByName(SortByName(SubSeq(fields, 1, Len(fields) - 1)),
                      fields[Len(fields)])

\* IndexMap::get_index_of: 0-based index of the entry with this key, or -1
IndexOfName(map, name) ==
    LET found == {i \in 1..Len(map) : map[i].name = name}
    IN  IF found = {} THEN -1 ELSE (CHOOSE i \in found : TRUE) - 1

\* fields.iter().position(|it| it == f): 0-based, -1 for None
Position(fields, f) ==
    LET found == {i \in 1..Len(fields) : fields[i] = f}
    IN  IF found = {} THEN -1
        ELSE (CHOOSE i \in found : \A k \in found : i <= k) - 1

(***************************************************************************)
(* PreparedModule: add_row, add_param, add_query                           *)
(*                                                                         *)
(* An operation returns a record: tag "Ok" with the module after the call  *)
(* and the returned value, tag "Err" with the module after the call and    *)
(* the ErrorVariant, or tag "Panic" when an assert! or unwrap() fails.     *)
(***************************************************************************)
IncompatibleNamedStruct(name) ==
    [tag |-> "Validation", kind |-> "IncompatibleNamedStruct", name |-> name]

\* A variant of AddRowOccupied that returns the identity permutation
AddRowOccupied_Identity(module, name, fields) ==
    LET idx == IndexOfName(module.rows, name)
        prev == module.rows[idx + 1].fields
    IN  IF ~named_struct_field(prev, fields)
        THEN [tag |-> "Err", module |-> module, err |-> IncompatibleNamedStruct(name)]
        ELSE [tag |-> "Ok", module |-> module,
              value |-> <<idx, [i \in 1..Len(prev) |-> i - 1]>>]

\* A variant of AddRowOccupied that looks up each submitted field among the
\* stored fields (the inverse permutation)
AddRowOccupied_Inverse(module, name, fields) ==
    LET idx == IndexOfName(module.rows, name)
        prev == module.rows[idx + 1].fields
    IN  IF ~named_struct_field(prev, fields)
        THEN [tag |-> "Err", module |-> module, err |-> IncompatibleNamedStruct(name)]
        ELSE [tag |-> "Ok", module |-> module,
              value |-> <<idx, [i \in 1..Len(fields) |-> Position(prev, fields[i])]>>]

\* Entry::Occupied arm of add_row
AddRowOccupied(module, name, fields) ==
    LET idx == IndexOfName(module.rows, name)
        prev == module.rows[idx + 1].fields
        indexes == [i \in 1..Len(prev) |-> Position(fields, prev[i])]
    IN  IF ~named_struct_field(prev, fields)
        THEN [tag |-> "Err", module |-> module, err |-> IncompatibleNamedStruct(name)]
        ELSE IF \E i \in 1..Len(indexes) : indexes[i] = -1
        THEN [tag |-> "Panic", module |-> module]
        ELSE [tag |-> "Ok", module |-> module, value |-> <<idx, indexes>>]

\* A variant of AddRowVacant that stores the fields in submitted order
AddRowVacant_Unsorted(module, name, fields) ==
    [module EXCEPT !.rows = Append(@, [name |-> name,
                                       fields |-> fields,
                                       is_copy |-> AllCopy(fields)])]

\* Entry::Vacant arm of add_row: the module with the new row inserted
AddRowVacant(module, name, fields) ==
    [module EXCEPT !.rows = Append(@, [name |-> name,
                                       fields |-> SortByName(fields),
                                       is_copy |-> AllCopy(fields)])]

\* A variant of add_row that stores a row under a name of its own when a
\* stored row of that name has other fields
add_row_Fresh(module, name, fields) ==
    IF fields = <<>> THEN [tag |-> "Panic", module |-> module]
    ELSE IF /\ IndexOfName(module.rows, name) # -1
            /\ named_struct_field(module.rows[IndexOfName(module.rows, name) + 1].fields,
                                  fields)
    THEN AddRowOccupied(module, name, fields)
    ELSE [tag |-> "Ok", module |-> AddRowVacant(module, name, fields),
          value |-> <<Len(module.rows),
                      [i \in 1..Len(fields) |-> Position(fields, SortByName(fields)[i])]>>]

\* PreparedModule::add_row; the vacant arm inserts and calls add_row again
add_row(module, name, fields) ==
    IF fields = <<>> THEN [tag |-> "Panic", module |-> module]
    ELSE IF IndexOfName(module.rows, name) # -1
    THEN AddRowOccupied(module, name, fields)
    ELSE AddRowOccupied(AddRowVacant(module, name, fields), name, fields)

\* A variant of AddParamOccupied that pushes the query index before it
\* compares the fields
AddParamOccupied_PushFirst(module, name, query_idx, fields) ==
    LET idx == IndexOfName(module.params, name)
        prev == module.params[idx + 1]
        pushed == [module EXCEPT !.params[idx + 1].queries = Append(@, query_idx)]
    IN  IF ~named_struct_field(prev.fields, fields)
        THEN [tag |-> "Err", module |-> pushed, err |-> IncompatibleNamedStruct(name)]
        ELSE [tag |-> "Ok", module |-> pushed, value |-> idx]

\* A variant of AddParamOccupied that does not compare the fields
AddParamOccupied_NoCheck(module, name, query_idx, fields) ==
    LET idx == IndexOfName(module.params, name)
    IN  [tag |-> "Ok",
         module |-> [module EXCEPT !.params[idx + 1].queries = Append(@, query_idx)],
         value |-> idx]

\* A variant of AddParamOccupied that puts the query index in front
AddParamOccupied_Prepend(module, name, query_idx, fields) ==
    LET idx == IndexOfName(module.params, name)
        prev == module.params[idx + 1]
    IN  IF ~named_struct_field(prev.fields, fields)
        THEN [tag |-> "Err", module |-> module, err |-> IncompatibleNamedStruct(name)]
        ELSE [tag |-> "Ok",
              module |-> [module EXCEPT !.params[idx + 1].queries = <<query_idx>> \o @],
              value |-> idx]

\* Entry::Occupied arm of add_param
AddParamOccupied(module, name, query_idx, fields) ==
    LET idx == IndexOfName(module.params, name)
        prev == module.params[idx + 1]
    IN  IF ~named_struct_field(prev.fields, fields)
        THEN [tag |-> "Err", module |-> module, err |-> IncompatibleNamedStruct(name)]
        ELSE [tag |-> "Ok",
              module |-> [module EXCEPT !.params[idx + 1].queries = Append(@, query_idx)],
              value |-> idx]

\* A variant of AddParamVacant that stores the fields in $1..$N order
AddParamVacant_Unsorted(module, name, fields) ==
    [module EXCEPT !.params = Append(@, [name |-> name,
                                         fields |-> fields,
                                         is_copy |-> AllCopy(fields),
                                         queries |-> <<>>])]

\* Entry::Vacant arm of add_param: the module with the new params inserted
AddParamVacant(module, name, fields) ==
    [module EXCEPT !.params = Append(@, [name |-> name,
                                         fields |-> SortByName(fields),
                                         is_copy |-> AllCopy(fields),
                                         queries |-> <<>>])]

\* A variant of add_param whose Vacant arm returns after the insertion
\* instead of entering add_param again
add_param_NoReenter(module, name, query_idx) ==
    IF query_idx < 0 \/ query_idx >= Len(module.queries)
    THEN [tag |-> "Panic", module |-> module]
    ELSE LET fields == module.queries[query_idx + 1].params
         IN  IF fields = <<>> THEN [tag |-> "Panic", module |-> module]
             ELSE IF IndexOfName(module.params, name) # -1
             THEN AddParamOccupied(module, name, query_idx, fields)
             ELSE [tag |-> "Ok", module |-> AddParamVacant(module, name, fields),
                   value |-> Len(module.params)]

\* PreparedModule::add_param
add_param(module, name, query_idx) ==
    IF query_idx < 0 \/ query_idx >= Len(module.queries)
    THEN [tag |-> "Panic", module |-> module]
    ELSE LET fields == module.queries[query_idx + 1].params
         IN  IF fields = <<>> THEN [tag |-> "Panic", module |-> module]
             ELSE IF IndexOfName(module.params, name) # -1
             THEN AddParamOccupied(module, name, query_idx, fields)
             ELSE AddParamOccupied(AddParamVacant(module, name, fields),
                                   name, query_idx, fields)

\* A variant of add_query that puts a new query in front of the map
add_query_Front(module, name, params, row_idx, sql) ==
    LET q == [name |-> name, params |-> params, row |-> row_idx, sql |-> sql]
    IN  [module |-> [module EXCEPT !.queries = <<q>> \o @], value |-> 0]

\* A variant of add_query that stores every query without a row
add_query_NoRow(module, name, params, row_idx, sql) ==
    LET q == [name |-> name, params |-> params, row |-> None, sql |-> sql]
    IN  [module |-> [module EXCEPT !.queries = Append(@, q)],
         value |-> Len(module.queries)]

\* PreparedModule::add_query: IndexMap::insert_full replaces the value of an
\* existing key in place and appends a new key; returns the entry's index.
add_query(module, name, params, row_idx, sql) ==
    LET q == [name |-> name, params |-> params, row |-> row_idx, sql |-> sql]
        idx == IndexOfName(module.queries, name)
    IN  IF idx # -1
        THEN [module |-> [module EXCEPT !.queries[idx + 1] = q], value |-> idx]
        ELSE [module |-> [module EXCEPT !.queries = Append(@, q)],
              value |-> Len(module.queries)]

(***************************************************************************)
(* prepare_query                                                           *)
(***************************************************************************)
\* Parsed<String>: a name with the line of the source file it was read at
Parsed(value, line) == [value |-> value, line |-> line]

\* A variant of Error that keeps the name of the query without its position
Error_NoPosition(err, query_name, path) ==
    [err |-> err, query_name |-> Parsed(query_name.value, 1), path |-> path]

\* error::Error::new(err, query_name, path)
Error(err, query_name, path) == [err |-> err, query_name |-> query_name, path |-> path]

Min(a, b) == IF a < b THEN a ELSE b

\* The loops that push one PreparedField per item, registering the item's
\* type first; the first registration error leaves the loop.  items is a
\* sequence of [name, ty, is_nullable].
RECURSIVE RegisterFields(_, _, _)
RegisterFields(registrar, items, acc) ==
    IF items = <<>> THEN [tag |-> "Ok", registrar |-> registrar, fields |-> acc]
    ELSE LET it == Head(items)
             r == register(registrar, it.ty)
         IN  IF r.tag = "Err" THEN r
             ELSE RegisterFields(r.registrar, Tail(items),
                                 Append(acc, PreparedField(it.name, it.ty, it.is_nullable)))

\* col_name.zip(stmt.params()) of a PgCompatible query
PgParamItems(params, stmt_params) ==
    [i \in 1..Min(Len(params), Len(stmt_params)) |->
        [name |-> params[i].name, ty |-> stmt_params[i],
         is_nullable |-> params[i].is_nullable]]

\* bind_params.zip(stmt_params) of an Extended query, with the nullability
\* given by the nullable identifiers
ExtParamItems(bind_params, stmt_params, nullable_params_fields) ==
    [i \in 1..Min(Len(bind_params), Len(stmt_params)) |->
        [name |-> bind_params[i], ty |-> stmt_params[i],
         is_nullable |-> bind_params[i] \in Range(nullable_params_fields)]]

\* stmt.columns() with the nullability given by the nullable identifiers
ColItems(stmt_cols, nullable_row_fields) ==
    [i \in 1..Len(stmt_cols) |->
        [name |-> stmt_cols[i].name, ty |-> stmt_cols[i].ty,
         is_nullable |-> stmt_cols[i].name \in Range(nullable_row_fields)]]

\* A variant of RowFields without the duplicate check
RowFields_NoDupCheck(registrar, stmt_cols, nullable_row_fields) ==
    LET unknown == FirstUnknown(nullable_row_fields, stmt_cols)
    IN  IF unknown.tag = "Some"
        THEN [tag |-> "Err", registrar |-> registrar,
              err |-> [tag |-> "Validation", kind |-> "UnknownNullableColumn",
                       name |-> unknown.value]]
        ELSE RegisterFields(registrar, ColItems(stmt_cols, nullable_row_fields), <<>>)

\* The row_fields block, the same in both flavours: duplicate check, then
\* the nullable-column checks, then one registration per column.
RowFields(registrar, stmt_cols, nullable_row_fields) ==
    LET dup == has_duplicate(stmt_cols)
        unknown == FirstUnknown(nullable_row_fields, stmt_cols)
    IN  IF dup.tag = "Some"
        THEN [tag |-> "Err", registrar |-> registrar,
              err |-> [tag |-> "DuplicateSqlColName", name |-> dup.value.name]]
        ELSE IF unknown.tag = "Some"
        THEN [tag |-> "Err", registrar |-> registrar,
              err |-> [tag |-> "Validation", kind |-> "UnknownNullableColumn",
                       name |-> unknown.value]]
        ELSE RegisterFields(registrar, ColItems(stmt_cols, nullable_row_fields), <<>>)

\* A variant of PgCompatibleArm that looks for a repeated column name
\* before it registers the types of the parameters
PgCompatibleArm_DupFirst(registrar, query) ==
    LET dup == has_duplicate(query.stmt.columns)
        p == RegisterFields(registrar,
                            PgParamItems(query.params.list, query.stmt.params), <<>>)
    IN  IF dup.tag = "Some"
        THEN [tag |-> "Err", registrar |-> registrar,
              err |-> [tag |-> "DuplicateSqlColName", name |-> dup.value.name]]
        ELSE IF p.tag = "Err" THEN p
        ELSE LET r == RowFields(p.registrar, query.stmt.columns, query.row.list)
             IN  IF r.tag = "Err" THEN r
                 ELSE [tag |-> "Ok", registrar |-> r.registrar,
                       params_name |-> to_upper_camel_case(query.name) \o ParamsSuffix,
                       params_fields |-> p.fields,
                       row_name |-> to_upper_camel_case(query.name),
                       row_fields |-> r.fields]

\* The match arm of ValidatedQuery::PgCompatible: the names and fields of
\* the query, or the first error.
PgCompatibleArm(registrar, query) ==
    LET p == RegisterFields(registrar,
                            PgParamItems(query.params.list, query.stmt.params), <<>>)
    IN  IF p.tag = "Err" THEN p
        ELSE LET r == RowFields(p.registrar, query.stmt.columns, query.row.list)
             IN  IF r.tag = "Err" THEN r
                 ELSE [tag |-> "Ok", registrar |-> r.registrar,
                       params_name |-> to_upper_camel_case(query.name) \o ParamsSuffix,
                       params_fields |-> p.fields,
                       row_name |-> to_upper_camel_case(query.name),
                       row_fields |-> r.fields]

\* A variant of ResolveStructure that always takes the name synthesized from
\* the query name
ResolveStructure_Implicit(desc, implicit_name, types) ==
    IF desc.tag = "Implicit"
    THEN [tag |-> "Ok", name |-> implicit_name, idents |-> desc.idents]
    ELSE LET found == unknown_named_struct(desc.name, types)
         IN  IF found.tag = "None"
             THEN [tag |-> "Err",
                   err |-> [tag |-> "Validation", kind |-> "UnknownNamedStruct",
                            name |-> desc.name]]
             ELSE [tag |-> "Ok", name |-> implicit_name, idents |-> found.value]

\* Resolution of a QueryDataStructure: the struct name and the nullable
\* identifiers, or UnknownNamedStruct.
ResolveStructure(desc, implicit_name, types) ==
    IF desc.tag = "Implicit"
    THEN [tag |-> "Ok", name |-> implicit_name, idents |-> desc.idents]
    ELSE LET found == unknown_named_struct(desc.name, types)
         IN  IF found.tag = "None"
             THEN [tag |-> "Err",
                   err |-> [tag |-> "Validation", kind |-> "UnknownNamedStruct",
                            name |-> desc.name]]
             ELSE [tag |-> "Ok", name |-> desc.name, idents |-> found.value]

\* The match arm of ValidatedQuery::Extended
ExtendedArm(registrar, param_types, row_types, query) ==
    LET pn == ResolveStructure(query.params,
                               to_upper_camel_case(query.name) \o ParamsSuffix,
                               param_types)
        rn == ResolveStructure(query.row, to_upper_camel_case(query.name), row_types)
    IN  IF pn.tag = "Err" THEN [tag |-> "Err", registrar |-> registrar, err |-> pn.err]
        ELSE IF rn.tag = "Err" THEN [tag |-> "Err", registrar |-> registrar, err |-> rn.err]
        ELSE
        LET items == ExtParamItems(query.bind_params, query.stmt.params, pn.idents)
            unknown == FirstUnknown(pn.idents, items)
        IN  IF unknown.tag = "Some"
            THEN [tag |-> "Err", registrar |-> registrar,
                  err |-> [tag |-> "Validation", kind |-> "UnknownNullableParam",
                           name |-> unknown.value]]
            ELSE
            LET p == RegisterFields(registrar, items, <<>>)
            IN  IF p.tag = "Err" THEN p
                ELSE LET r == RowFields(p.registrar, query.stmt.columns, rn.idents)
                     IN  IF r.tag = "Err" THEN r
                         ELSE [tag |-> "Ok", registrar |-> r.registrar,
                               params_name |-> pn.name,
                               params_fields |-> p.fields,
                               row_name |-> rn.name,
                               row_fields |-> r.fields]

\* A variant of InternQuery that hands back the module it was given when
\* add_param fails
InternQuery_Restore(module, registrar, query, arm) ==
    LET rowres == IF arm.row_fields # <<>>
                  THEN add_row(module, arm.row_name, arm.row_fields)
                  ELSE [tag |-> "Ok", module |-> module]
        row_idx == IF arm.row_fields # <<>> THEN Some(rowres.value) ELSE None
    IN  IF rowres.tag # "Ok"
        THEN [tag |-> rowres.tag, module |-> rowres.module, registrar |-> registrar,
              err |-> IF rowres.tag = "Err"
                      THEN Error(rowres.err, Parsed(query.name, query.line), module.path)
                      ELSE None]
        ELSE
        LET added == add_query(rowres.module, query.name, arm.params_fields,
                               row_idx, query.sql)
        IN  IF arm.params_fields = <<>>
            THEN [tag |-> "Ok", module |-> added.module, registrar |-> registrar,
                  err |-> None]
            ELSE LET parres == add_param(added.module, arm.params_name, added.value)
                 IN  [tag |-> parres.tag,
                      module |-> IF parres.tag = "Ok" THEN parres.module ELSE module,
                      registrar |-> registrar,
                      err |-> IF parres.tag = "Err"
                              THEN Error(parres.err, Parsed(query.name, query.line),
                                         module.path)
                              ELSE None]

\* The tail of prepare_query: intern the row, add the query, intern the
\* params.
InternQuery(module, registrar, query, arm) ==
    LET rowres == IF arm.row_fields # <<>>
                  THEN add_row(module, arm.row_name, arm.row_fields)
                  ELSE [tag |-> "Ok", module |-> module]
        row_idx == IF arm.row_fields # <<>> THEN Some(rowres.value) ELSE None
    IN  IF rowres.tag # "Ok"
        THEN [tag |-> rowres.tag, module |-> rowres.module, registrar |-> registrar,
              err |-> IF rowres.tag = "Err"
                      THEN Error(rowres.err, Parsed(query.name, query.line), module.path)
                      ELSE None]
        ELSE
        LET added == add_query(rowres.module, query.name, arm.params_fields,
                               row_idx, query.sql)
        IN  IF arm.params_fields = <<>>
            THEN [tag |-> "Ok", module |-> added.module, registrar |-> registrar,
                  err |-> None]
            ELSE LET parres == add_param(added.module, arm.params_name, added.value)
                 IN  [tag |-> parres.tag, module |-> parres.module,
                      registrar |-> registrar,
                      err |-> IF parres.tag = "Err"
                              THEN Error(parres.err, Parsed(query.name, query.line),
                                         module.path)
                              ELSE None]

\* A variant of prepare_query that hands the two annotation lists to the
\* Extended arm in the other order
prepare_query_SwappedLists(module, registrar, param_types, row_types, query) ==
    IF ~query.stmt.ok
    THEN [tag |-> "Err", module |-> module, registrar |-> registrar,
          err |-> Error([tag |-> "Db", as_db_error |-> query.stmt.as_db_error],
                       Parsed(query.name, query.line), module.path)]
    ELSE LET arm == IF query.flavor = "PgCompatible"
                    THEN PgCompatibleArm(registrar, query)
                    ELSE ExtendedArm(registrar, row_types, param_types, query)
         IN  IF arm.tag = "Err"
             THEN [tag |-> "Err", module |-> module, registrar |-> arm.registrar,
                   err |-> Error(arm.err, Parsed(query.name, query.line), module.path)]
             ELSE InternQuery(module, arm.registrar, query, arm)

\* prepare_query(client, module, registrar, param_types, row_types, query)
prepare_query(module, registrar, param_types, row_types, query) ==
    IF ~query.stmt.ok
    THEN [tag |-> "Err", module |-> module, registrar |-> registrar,
          err |-> Error([tag |-> "Db", as_db_error |-> query.stmt.as_db_error],
                       Parsed(query.name, query.line), module.path)]
    ELSE LET arm == IF query.flavor = "PgCompatible"
                    THEN PgCompatibleArm(registrar, query)
                    ELSE ExtendedArm(registrar, param_types, row_types, query)
         IN  IF arm.tag = "Err"
             THEN [tag |-> "Err", module |-> module, registrar |-> arm.registrar,
                   err |-> Error(arm.err, Parsed(query.name, query.line), module.path)]
             ELSE InternQuery(module, arm.registrar, query, arm)

(***************************************************************************)
(* prepare_type and the types of the Preparation                           *)
(***************************************************************************)
InnerName == <<"i","n","n","e","r">>

\* A variant of prepare_type that sorts the fields of a composite by name
prepare_type_Sorted(registrar, name, ty) ==
    IF ty.variant = "Custom"
    THEN LET pg == PgType(ty.pg_ty)
         IN  IF pg.kind \notin {"Enum", "Domain", "Composite"}
             THEN [tag |-> "Panic"]
             ELSE Some([name |-> name,
                        struct_name |-> ty.struct_name,
                        content |->
                          CASE pg.kind = "Enum" ->
                                 [tag |-> "Enum", variants |-> pg.variants]
                            [] pg.kind = "Domain" ->
                                 [tag |-> "Domain",
                                  inner |-> PreparedField(InnerName, pg.inner, FALSE)]
                            [] OTHER ->
                                 [tag |-> "Composite",
                                  fields |-> SortByName(
                                               [i \in 1..Len(pg.fields) |->
                                                 PreparedField(pg.fields[i].name,
                                                               pg.fields[i].ty, FALSE)])],
                        is_copy |-> ty.is_copy,
                        is_params |-> ty.is_params])
    ELSE None

\* prepare_type(registrar, name, ty): the PreparedType of a Custom entry,
\* None for any other entry; a Custom entry of another kind than enum,
\* domain or composite is unreachable!().
prepare_type(registrar, name, ty) ==
    IF ty.variant = "Custom"
    THEN LET pg == PgType(ty.pg_ty)
         IN  IF pg.kind \notin {"Enum", "Domain", "Composite"}
             THEN [tag |-> "Panic"]
             ELSE Some([name |-> name,
                        struct_name |-> ty.struct_name,
                        content |->
                          CASE pg.kind = "Enum" ->
                                 [tag |-> "Enum", variants |-> pg.variants]
                            [] pg.kind = "Domain" ->
                                 [tag |-> "Domain",
                                  inner |-> PreparedField(InnerName, pg.inner, FALSE)]
                            [] OTHER ->
                                 [tag |-> "Composite",
                                  fields |-> [i \in 1..Len(pg.fields) |->
                                               PreparedField(pg.fields[i].name,
                                                             pg.fields[i].ty, FALSE)]],
                        is_copy |-> ty.is_copy,
                        is_params |-> ty.is_params])
    ELSE None

\* IndexMap::get_index_of on the schema keys: 0-based, -1 if absent
IndexOfSchema(types, schema) ==
    LET found == {i \in 1..Len(types) : types[i].schema = schema}
    IN  IF found = {} THEN -1 ELSE (CHOOSE i \in found : TRUE) - 1

\* A variant of PushType that puts the type in front of its schema's list
PushType_Front(types, schema, ty) ==
    LET idx == IndexOfSchema(types, schema)
    IN  IF idx # -1
        THEN [types EXCEPT ![idx + 1].types = <<ty>> \o @]
        ELSE Append(types, [schema |-> schema, types |-> <<ty>>])

\* tmp.types.entry(schema): push to the schema's list, or insert the list
PushType(types, schema, ty) ==
    LET idx == IndexOfSchema(types, schema)
    IN  IF idx # -1
        THEN [types EXCEPT ![idx + 1].types = Append(@, ty)]
        ELSE Append(types, [schema |-> schema, types |-> <<ty>>])

\* The loop of prepare over registrar.types, from entry i on.  The types
\* map is the sequence of its (schema, list) entries.
RECURSIVE PrepareTypes(_, _, _)
PrepareTypes(registrar, i, types) ==
    IF i > Len(registrar) THEN types
    ELSE LET key == registrar[i]
             ty == prepare_type(registrar, PgType(key).name, CornucopiaType(key))
         IN  PrepareTypes(registrar, i + 1,
                          IF ty.tag = "Some"
                          THEN PushType(types, PgType(key).schema, ty.value)
                          ELSE types)

(***************************************************************************)
(* Display of error::Error                                                 *)
(***************************************************************************)
\* Display of ErrorVariant::DuplicateSqlColName (the #[error] attribute);
\* the backquotes of the message are written ' here
DuplicateDisplay(name) ==
    <<"Two or more columns have the same name: '">> \o name
    \o <<"'. Consider disambiguing the column names with 'AS' clauses.">>

\* Display of the errors of type_registrar and of validation
PostgresTypeDisplay(e) == <<"PostgresTypeError: ", e.ty>>
ValidationDisplay(e) == <<"ValidationError: ", e.kind, " ">> \o e.name

\* Display of ErrorVariant: #[error("{0}")], the wrapped error's Display
VariantDisplay(e) ==
    CASE e.tag = "DuplicateSqlColName" -> DuplicateDisplay(e.name)
      [] e.tag = "PostgresType" -> PostgresTypeDisplay(e)
      [] e.tag = "Validation" -> ValidationDisplay(e)
      [] OTHER -> <<e.as_db_error.value>>

\* "Error while preparing query \"{}\" [file: \"{}\", line: {}]"
Header(error) ==
    <<"Error while preparing query \"">> \o error.query_name.value
    \o <<"\" [file: \"", error.path, "\", line: ", ToString(error.query_name.line), "]">>

\* A variant of Display that writes every variant in parentheses
Display_Parens(error) ==
    CASE error.err.tag = "Db" ->
           IF error.err.as_db_error.tag = "None" THEN [tag |-> "Panic"]
           ELSE [tag |-> "Ok",
                 text |-> Header(error) \o <<" (", error.err.as_db_error.value, ")">>]
      [] error.err.tag = "Validation" ->
           [tag |-> "Ok", text |-> ValidationDisplay(error.err)]
      [] OTHER ->
           [tag |-> "Ok",
            text |-> Header(error) \o <<" (">> \o VariantDisplay(error.err) \o <<")">>]

\* impl Display for Error: the text written, as a sequence of pieces;
\* e.as_db_error().unwrap() panics on a postgres::Error that is not an error
\* report of the server.
Display(error) ==
    CASE error.err.tag = "Db" ->
           IF error.err.as_db_error.tag = "None" THEN [tag |-> "Panic"]
           ELSE [tag |-> "Ok",
                 text |-> Header(error) \o <<" (", error.err.as_db_error.value, ")">>]
      [] error.err.tag = "Validation" ->
           [tag |-> "Ok", text |-> ValidationDisplay(error.err)]
      [] OTHER ->
           [tag |-> "Ok",
            text |-> Header(error) \o <<":\n">> \o VariantDisplay(error.err)]

(***************************************************************************)
(* Inputs: the validated module and the database's answers                 *)
(***************************************************************************)
Nx == <<"x">>
Ny == <<"y">>
Nz == <<"z">>
Nw == <<"w">>
NR == <<"R">>
NP == <<"P">>
NU == <<"U">>
NS == <<"S">>

\* The query names of the module.  "a_b" and "aB" are distinct query names
\* with the same UpperCamelCase form; "r" is written "R" in UpperCamelCase,
\* the name of a declared struct.
Nab == <<"a","_","b">>
NaB == <<"a","B">>
Nr == <<"r">>
QueryNames == {Nab, NaB, Nr}

\* The type annotation lists of the module (separate lists for params and
\* rows), each declaration with its nullable identifiers.
ParamTypes == <<[name |-> NR, idents |-> <<>>], [name |-> NP, idents |-> <<Nx>>]>>
RowTypes == <<[name |-> NR, idents |-> <<Ny>>], [name |-> NS, idents |-> <<>>]>>

Col(name, ty) == [name |-> name, ty |-> ty]
Implicit(idents) == [tag |-> "Implicit", idents |-> idents]
Named(name) == [tag |-> "Named", name |-> name]

\* client.prepare(sql): the statement's parameter types and columns, or a
\* postgres::Error.  as_db_error is the message of the error report the
\* server sent, if the error is one: DbError is an error reported by the
\* server, ClosedError an error of the connection (no report).
Stmt(params, columns) ==
    [ok |-> TRUE, params |-> params, columns |-> columns, as_db_error |-> None]
DbError ==
    [ok |-> FALSE, params |-> <<>>, columns |-> <<>>,
     as_db_error |-> Some("syntax error at end of input")]
ClosedError ==
    [ok |-> FALSE, params |-> <<>>, columns |-> <<>>, as_db_error |-> None]

\* All sequences without repetition over the set S
InjSeqs(S) ==
    {s \in UNION {[1..n -> S] : n \in 0..Cardinality(S)} :
        \A i, j \in 1..Len(s) : i # j => s[i] # s[j]}

\* ValidatedQuery::Extended.  The constructors write the query at line 1;
\* At(query, line) is the query written at another line of the file.
At(query, line) == [query EXCEPT !.line = line]

Extended(name, params, bind_params, row, stmt) ==
    [flavor |-> "Extended", name |-> name, line |-> 1, params |-> params,
     bind_params |-> bind_params, row |-> row, sql |-> "sql", stmt |-> stmt]

\* ValidatedQuery::PgCompatible: params is a list of [name, is_nullable],
\* row the list of nullable columns
Flat(list) == [tag |-> "Flat", list |-> list]
PgCompatible(name, params, row, stmt) ==
    [flavor |-> "PgCompatible", name |-> name, line |-> 1, params |-> Flat(params),
     bind_params |-> <<>>, row |-> Flat(row), sql |-> "sql", stmt |-> stmt]

Xi == Col(Nx, "int4")
Xt == Col(Nx, "text")
Yt == Col(Ny, "text")
Zi == Col(Nz, "int4")
Names(cols) == [i \in 1..Len(cols) |-> cols[i].name]
Tys(cols) == [i \in 1..Len(cols) |-> cols[i].ty]

\* Queries sharing the declared row R: the three columns x, y, z in every
\* order, shorter lists, a list that differs from <<x, y>> in the type of x
\* only, a list without the nullable column y of R, and a list with a
\* repeated column name.
RowShapes ==
    {s \in InjSeqs({Xi, Yt, Zi}) : Len(s) = Cardinality({Xi, Yt, Zi})}
    \cup {<<Xi, Yt>>, <<Yt, Xi>>, <<Xt, Yt>>, <<Yt>>, <<Xi>>, <<Xi, Yt, Yt>>}
NamedRowQueries ==
    {Extended(n, Implicit(<<>>), <<>>, Named(NR), Stmt(<<>>, cols)) :
        n \in {Nab, NaB}, cols \in RowShapes}

\* Queries with an implicit row, in both flavours
ImplicitRowQueries ==
    {Extended(n, Implicit(<<>>), <<>>, Implicit(ids), Stmt(<<>>, cols)) :
        n \in QueryNames, ids \in {<<>>, <<Ny>>}, cols \in {<<Xi, Yt>>, <<Yt, Xi>>}}
    \cup
    {PgCompatible(n, <<>>, ids, Stmt(<<>>, cols)) :
        n \in QueryNames, ids \in {<<>>, <<Ny>>}, cols \in {<<Xi, Yt>>, <<Yt, Xi>>}}
    \cup
    {Extended(Nr, Implicit(<<>>), <<>>, Implicit(ids), Stmt(<<>>, cols)) :
        ids \in {<<Nw>>, <<Ny, Nw>>}, cols \in {<<Xi, Yt>>, <<Xi, Xt>>}}
    \cup
    {PgCompatible(Nr, <<>>, ids, Stmt(<<>>, cols)) :
        ids \in {<<Nw>>, <<Ny, Nw>>}, cols \in {<<Xi, Yt>>, <<Xi, Xt>>}}

\* Queries with parameters: bind parameters with the types the database
\* reports for them
ParamShapes == {<<Xi>>, <<Xi, Yt>>, <<Yt, Xi>>, <<Xt>>}
ParamQueries ==
    {Extended(n, pd, Names(ps), Implicit(<<>>), Stmt(Tys(ps), <<>>)) :
        n \in {Nab, NaB}, pd \in {Implicit(<<>>), Named(NR)}, ps \in ParamShapes}
    \cup
    {Extended(n, Named(NR), <<Nx>>, Implicit(<<>>), Stmt(<<"int4">>, <<Xi>>)) :
        n \in {Nab, NaB}}
    \cup
    {Extended(Nr, Implicit(ids), Names(ps), Implicit(<<>>), Stmt(Tys(ps), <<>>)) :
        ids \in {<<Nx>>, <<Nw>>}, ps \in {<<Xi>>, <<Yt, Xi>>}}
    \cup
    {PgCompatible(n, [i \in 1..Len(ps) |-> [name |-> ps[i].name, is_nullable |-> nl]],
                  <<>>, Stmt(Tys(ps), <<>>)) :
        n \in {Nab, NaB}, nl \in BOOLEAN, ps \in {<<Xi>>, <<Yt, Xi>>}}

\* Queries that fail before interning: database errors, unsupported types
\* (alone and together with a repeated column name), undeclared named
\* structs (P is declared for params only, S for rows only, U nowhere)
FailingQueries ==
    {Extended(Nr, Implicit(<<>>), <<>>, Implicit(<<>>), DbError),
     PgCompatible(Nr, <<>>, <<>>, DbError),
     Extended(Nr, Named(NU), <<>>, Implicit(<<>>), DbError),
     Extended(Nr, Implicit(<<>>), <<>>, Implicit(<<>>), ClosedError),
     Extended(Nr, Named(NS), <<Nx>>, Implicit(<<>>), Stmt(<<"int4">>, <<>>)),
     Extended(Nr, Implicit(<<>>), <<>>, Implicit(<<>>),
              Stmt(<<>>, <<Col(Nx, "anyrange")>>)),
     Extended(Nr, Named(NU), <<Nx>>, Implicit(<<>>), Stmt(<<"int4">>, <<>>)),
     Extended(Nr, Implicit(<<>>), <<>>, Named(NP), Stmt(<<>>, <<Xi>>))}
    \cup {Extended(Nr, Implicit(<<>>), <<Nx>>, Implicit(<<>>),
                   Stmt(<<"anyrange">>, cols)) : cols \in {<<>>, <<Xi, Xi>>}}
    \cup {PgCompatible(Nr, <<[name |-> Nx, is_nullable |-> FALSE]>>, <<>>,
                       Stmt(<<"anyrange">>, cols)) : cols \in {<<>>, <<Xi, Xi>>}}

\* The queries a validated module is made of
Queries == NamedRowQueries \cup ImplicitRowQueries \cup ParamQueries \cup FailingQueries

(***************************************************************************)
(* State                                                                   *)
(***************************************************************************)
VARIABLES
    pc,         \* position in prepare: "prepare", "module" or "done"
    todo,       \* the validated modules not yet prepared: [name, path, n]
    consumed,   \* the queries of the current module handed to prepare_query
    module,     \* tmp_prepared_module of prepare_module
    registrar,  \* the type registrar: registered types, in order
    modules,    \* tmp.modules of prepare
    result,     \* what prepare returned, None while it runs
    printed,    \* what the caller's display of the error wrote, None before
    inputs,     \* the modules handed to prepare so far, each with the
                \* queries read from it so far: [name, path, queries]
    driver      \* the integration test driver: its position, its current
                \* directory, the database and the directory tree it set up

vars == <<pc, todo, consumed, module, registrar, modules, result, printed, inputs,
          driver>>

ModuleName == <<"m">>
ModulePath == "queries/m.sql"

\* prepare_module: the empty PreparedModule
NewModule(name, path) ==
    [name |-> name, path |-> path, queries |-> <<>>, params |-> <<>>, rows |-> <<>>]

\* prepare starts with an empty registrar and no prepared module
Start ==
    /\ pc = "prepare"
    /\ consumed = <<>>
    /\ module = None
    /\ registrar = <<>>
    /\ modules = <<>>
    /\ result = None
    /\ printed = None
    /\ inputs = <<>>

Init ==
    /\ Start
    /\ driver = None
    /\ \E n \in 0..MaxQueries :
         todo = <<[name |-> ModuleName, path |-> ModulePath, n |-> n]>>

\* prepare's loop enters prepare_module for the next module
PrepareModuleBegin ==
    /\ pc = "prepare"
    /\ todo # <<>>
    /\ module' = NewModule(Head(todo).name, Head(todo).path)
    /\ consumed' = <<>>
    /\ pc' = "module"
    /\ inputs' = Append(inputs, [name |-> Head(todo).name, path |-> Head(todo).path,
                                  queries |-> <<>>])
    /\ UNCHANGED <<todo, registrar, modules, result, printed, driver>>

\* One iteration of prepare_module's loop: prepare_query on the next query
\* of the module, written on the next line of the module's file.  An error
\* leaves prepare_module and prepare at once (the ? operators) and is what
\* prepare returns.  Query names are unique in a validated module.
PrepareQuery(query) ==
    /\ pc = "module"
    /\ Len(consumed) < Head(todo).n
    /\ \A i \in 1..Len(consumed) : consumed[i].name # query.name
    /\ LET q == At(query, Len(consumed) + 1)
           r == prepare_query(module, registrar, ParamTypes, RowTypes, q)
       IN  /\ module' = r.module
           /\ registrar' = r.registrar
           /\ consumed' = Append(consumed, q)
           /\ inputs' = [inputs EXCEPT ![Len(inputs)].queries = Append(@, q)]
           /\ IF r.tag = "Ok"
              THEN UNCHANGED <<pc, result>>
              ELSE /\ pc' = "done"
                   /\ result' = IF r.tag = "Err"
                                THEN [tag |-> "Err", err |-> r.err]
                                ELSE [tag |-> "Panic"]
    /\ UNCHANGED <<todo, modules, printed, driver>>

\* prepare_module returns Ok(tmp_prepared_module); prepare pushes it
PrepareModuleEnd ==
    /\ pc = "module"
    /\ Len(consumed) = Head(todo).n
    /\ modules' = Append(modules, module)
    /\ todo' = Tail(todo)
    /\ pc' = "prepare"
    /\ UNCHANGED <<consumed, module, registrar, result, printed, inputs, driver>>

\* A variant of PrepareFinish that returns the modules in input order
PrepareFinish_Unsorted ==
    /\ pc = "prepare"
    /\ todo = <<>>
    /\ result' = [tag |-> "Ok", modules |-> modules,
                  types |-> PrepareTypes(registrar, 1, <<>>)]
    /\ pc' = "done"
    /\ UNCHANGED <<todo, consumed, module, registrar, modules, printed, inputs, driver>>

\* A variant of PrepareFinish that returns the modules in an order of its
\* own choice
PrepareFinish_AnyOrder ==
    /\ pc = "prepare"
    /\ todo = <<>>
    /\ \E ms \in InjSeqs(Range(modules)) :
         /\ Len(ms) = Len(modules)
         /\ result' = [tag |-> "Ok", modules |-> ms,
                       types |-> PrepareTypes(registrar, 1, <<>>)]
    /\ pc' = "done"
    /\ UNCHANGED <<todo, consumed, module, registrar, modules, printed, inputs, driver>>

\* After the loop: sort the modules by name, collect the types of the
\* registrar and return the Preparation
PrepareFinish ==
    /\ pc = "prepare"
    /\ todo = <<>>
    /\ result' = [tag |-> "Ok", modules |-> SortByName(modules),
                  types |-> PrepareTypes(registrar, 1, <<>>)]
    /\ pc' = "done"
    /\ UNCHANGED <<todo, consumed, module, registrar, modules, printed, inputs, driver>>

\* The caller writes the error prepare returned with its Display
DisplayError ==
    /\ pc = "done"
    /\ result.tag = "Err"
    /\ printed = None
    /\ printed' = Display(result.err)
    /\ UNCHANGED <<pc, todo, consumed, module, registrar, modules, result, inputs,
                   driver>>

Next ==
    \/ PrepareModuleBegin
    \/ \E query \in Queries : PrepareQuery(query)
    \/ PrepareModuleEnd
    \/ PrepareFinish
    \/ DisplayError

Spec == Init /\ [][Next]_vars

(***************************************************************************)
(* Preparation of several modules that use user-defined types              *)
(***************************************************************************)
MaxModules == 2

\* The module files of the queries directory; "ab" sorts between "a" and "b"
ModuleFiles ==
    {[name |-> <<"b">>, path |-> "queries/b.sql"],
     [name |-> <<"a">>, path |-> "queries/a.sql"],
     [name |-> <<"a","b">>, path |-> "queries/ab.sql"]}

Mood == Col(<<"m">>, "mood")
Person == Col(<<"p">>, "person")

\* Queries whose parameters and columns have user-defined types: enums of
\* two schemas, a composite with an enum field, a domain, an array of an
\* enum; a query with a nullable parameter and a nullable column; a query
\* with a column of an unsupported type; queries with a repeated column
\* name and a parameter (of a supported type, alone and together with an
\* unknown nullable parameter, and of an unsupported type); a query with a
\* parameter and an unknown nullable column.
TypeQueries ==
    {Extended(Nab, Implicit(<<>>), <<>>, Implicit(<<>>), Stmt(<<>>, <<Mood>>)),
     Extended(Nab, Implicit(<<>>), <<>>, Implicit(<<>>),
              Stmt(<<>>, <<Col(Nx, "status"), Mood>>)),
     Extended(Nab, Implicit(<<>>), <<>>, Implicit(<<>>), Stmt(<<>>, <<Person, Mood>>)),
     Extended(Nab, Implicit(<<>>), <<Nx>>, Implicit(<<>>),
              Stmt(<<"posint">>, <<Col(Ny, "_mood")>>)),
     Extended(Nab, Implicit(<<Nx>>), <<Nx>>, Implicit(<<Ny>>),
              Stmt(<<"status">>, <<Yt, Zi>>)),
     PgCompatible(Nab, <<[name |-> Nx, is_nullable |-> TRUE]>>, <<Ny>>,
                  Stmt(<<"person">>, <<Yt>>)),
     Extended(Nab, Implicit(<<>>), <<>>, Implicit(<<>>),
              Stmt(<<>>, <<Xi, Col(Ny, "anyrange")>>)),
     Extended(Nab, Implicit(<<>>), <<Nx>>, Implicit(<<>>),
              Stmt(<<"int4">>, <<Xi, Xi>>)),
     Extended(Nab, Implicit(<<Nw>>), <<Nx>>, Implicit(<<>>),
              Stmt(<<"int4">>, <<Xi, Xi>>)),
     Extended(Nab, Implicit(<<>>), <<Nx>>, Implicit(<<>>),
              Stmt(<<"anyrange">>, <<Xi, Xi>>)),
     Extended(Nab, Implicit(<<>>), <<Nx>>, Implicit(<<Nw>>),
              Stmt(<<"text">>, <<Xi>>)),
     PgCompatible(Nab, <<[name |-> Nx, is_nullable |-> FALSE]>>, <<>>,
                  Stmt(<<"int4">>, <<Xt, Xt>>))}

\* The input module list: up to MaxModules of the module files in any
\* order, each with no query or one query
InitModules ==
    /\ Start
    /\ driver = None
    /\ \E ms \in InjSeqs(ModuleFiles) :
         /\ Len(ms) <= MaxModules
         /\ \E ns \in [1..Len(ms) -> {0, 1}] :
              todo = [i \in 1..Len(ms) |->
                        [name |-> ms[i].name, path |-> ms[i].path, n |-> ns[i]]]

NextModules ==
    \/ PrepareModuleBegin
    \/ \E query \in TypeQueries : PrepareQuery(query)
    \/ PrepareModuleEnd
    \/ PrepareFinish
    \/ DisplayError

SpecModules == InitModules /\ [][NextModules]_vars

(***************************************************************************)
(* Vocabulary of the properties                                            *)
(***************************************************************************)
\* prepare returned an error (or panicked) while preparing the last query
\* handed to prepare_query
Failed == pc = "done" /\ result.tag \in {"Err", "Panic"}

\* Positions (1-based, in file order) of the successfully prepared queries.
\* Query names being unique, the k-th prepared query is module.queries[k].
Prepared ==
    IF module = None THEN {}
    ELSE {k \in 1..Len(consumed) : ~(Failed /\ k = Len(consumed))}

\* The nullable identifiers a query gives for its row and for its params
DeclaredIdents(types, name) ==
    LET found == {i \in 1..Len(types) : types[i].name = name}
    IN  IF found = {} THEN <<>> ELSE types[CHOOSE i \in found : TRUE].idents

RowIdents(q) ==
    IF q.flavor = "PgCompatible" THEN q.row.list
    ELSE IF q.row.tag = "Implicit" THEN q.row.idents
    ELSE DeclaredIdents(RowTypes, q.row.name)

ParamIdents(q) ==
    IF q.flavor = "PgCompatible"
    THEN LET nl == {i \in 1..Len(q.params.list) : q.params.list[i].is_nullable}
         IN  {q.params.list[i].name : i \in nl}
    ELSE IF q.params.tag = "Implicit" THEN Range(q.params.idents)
    ELSE Range(DeclaredIdents(ParamTypes, q.params.name))

\* The statement's result column at 0-based wire position j, with the
\* nullability the query gives it
WireColumn(q, j) ==
    [name |-> q.stmt.columns[j + 1].name,
     ty |-> q.stmt.columns[j + 1].ty,
     is_nullable |-> q.stmt.columns[j + 1].name \in Range(RowIdents(q))]

WireColumns(q) == {WireColumn(q, j) : j \in 0..(Len(q.stmt.columns) - 1)}

\* name, type and nullability of a prepared field
Shape(f) == [name |-> f.name, ty |-> f.ty, is_nullable |-> f.is_nullable]

\* The row name a query asks for
RowNameOf(q) ==
    IF q.flavor = "Extended" /\ q.row.tag = "Named" THEN q.row.name
    ELSE to_upper_camel_case(q.name)

RowIdx(k) == module.queries[k].row.value[1]
ColIdx(k) == module.queries[k].row.value[2]
HasRow(k) == module.queries[k].row.tag = "Some"

\* col_idx of query k sends field i of the interned row to the wire column
\* of the same name, type and nullability
ColIdxMatchesWire(k) ==
    LET row == module.rows[RowIdx(k) + 1]
    IN  /\ Len(ColIdx(k)) = Len(row.fields)
        /\ \A i \in 1..Len(row.fields) :
             /\ ColIdx(k)[i] \in 0..(Len(consumed[k].stmt.columns) - 1)
             /\ WireColumn(consumed[k], ColIdx(k)[i]) = Shape(row.fields[i])

(***************************************************************************)
(* C1                                                                      *)
(***************************************************************************)
\* C1: within one module, two successfully prepared queries with the same
\* row name and the same set of result columns (name, type, nullability)
\* have the same row_idx, the rows map holds one entry of that name, and
\* each query's col_idx is the permutation for its own column order.
C1_SameShapeSameRow ==
    \A k1, k2 \in Prepared :
        ( /\ k1 # k2
          /\ consumed[k1].stmt.columns # <<>>
          /\ RowNameOf(consumed[k1]) = RowNameOf(consumed[k2])
          /\ WireColumns(consumed[k1]) = WireColumns(consumed[k2]) )
        => /\ HasRow(k1) /\ HasRow(k2)
           /\ RowIdx(k1) = RowIdx(k2)
           /\ Cardinality({i \in 1..Len(module.rows) :
                             module.rows[i].name = RowNameOf(consumed[k1])}) = 1
           /\ ColIdxMatchesWire(k1)
           /\ ColIdxMatchesWire(k2)

\* Two prepared queries share a row of three columns that they list in
\* different orders
C1_Witness ==
    \E k1, k2 \in Prepared :
        /\ k1 # k2
        /\ HasRow(k1) /\ HasRow(k2)
        /\ RowIdx(k1) = RowIdx(k2)
        /\ Len(ColIdx(k1)) > 2
        /\ ColIdx(k1) # ColIdx(k2)

(***************************************************************************)
(* C2                                                                      *)
(***************************************************************************)
\* C2: for every PreparedQuery with row = Some((row_idx, col_idx)),
\* rows[row_idx].fields has the length of col_idx and the statement's column
\* at wire position col_idx[i] has the name, type and nullability of
\* rows[row_idx].fields[i].
C2_RowInterningCorrect ==
    \A k \in Prepared :
        HasRow(k) => /\ RowIdx(k) \in 0..(Len(module.rows) - 1)
                     /\ ColIdxMatchesWire(k)

\* A prepared query whose col_idx is a permutation that is not its own
\* inverse (three columns, rotated)
C2_Witness ==
    \E k \in Prepared :
        /\ HasRow(k)
        /\ Len(ColIdx(k)) > 2
        /\ \E i \in 1..Len(ColIdx(k)) : ColIdx(k)[ColIdx(k)[i] + 1] # i - 1

(***************************************************************************)
(* C3                                                                      *)
(***************************************************************************)
\* Query k is the first query of the module to use its row: add_row was
\* called with a name not yet in the rows map
FirstUse(k) ==
    /\ HasRow(k)
    /\ \A j \in 1..(k - 1) : HasRow(j) => RowIdx(j) # RowIdx(k)

\* The number of rows in the map when query k was prepared
RowsBefore(k) == Cardinality({RowIdx(j) : j \in {i \in 1..(k - 1) : HasRow(i)}})

StrictlySortedByName(fields) ==
    \A i, j \in 1..Len(fields) : i < j => StrLess(fields[i].name, fields[j].name)

\* What add_row stores for a new name: the submitted fields sorted by
\* name, is_copy, at the next free index
NewRowStored(k) ==
    LET row == module.rows[RowIdx(k) + 1]
    IN  /\ RowIdx(k) = RowsBefore(k)
        /\ row.name = RowNameOf(consumed[k])
        /\ StrictlySortedByName(row.fields)
        /\ {Shape(row.fields[i]) : i \in 1..Len(row.fields)} = WireColumns(consumed[k])
        /\ Len(row.fields) = Len(consumed[k].stmt.columns)
        /\ row.is_copy = (\A c \in WireColumns(consumed[k]) : TypeIsCopy(c.ty))

\* C3 (as stated): add_row with a new name stores the fields sorted by name,
\* computes is_copy and returns (new index, identity permutation), whatever
\* the column order of the submitted fields.
C3_NewRowIdentity ==
    \A k \in Prepared :
        FirstUse(k) => /\ NewRowStored(k)
                       /\ ColIdx(k) = [i \in 1..Len(consumed[k].stmt.columns) |-> i - 1]

\* C3 (amended): add_row with a new name stores the fields sorted by name,
\* computes is_copy and returns the new index with the permutation that
\* sends the i-th stored field to its position among the submitted fields;
\* this is the identity exactly when the fields were submitted in ascending
\* name order.
C3_NewRowPermutation ==
    \A k \in Prepared :
        FirstUse(k) =>
            /\ NewRowStored(k)
            /\ ColIdxMatchesWire(k)
            /\ (ColIdx(k) = [i \in 1..Len(consumed[k].stmt.columns) |-> i - 1])
                 <=> StrictlySortedByName(consumed[k].stmt.columns)

\* A first use of a row name whose columns are not in name order
C3_Witness ==
    \E k \in Prepared :
        /\ FirstUse(k)
        /\ ~StrictlySortedByName(consumed[k].stmt.columns)
        /\ ColIdx(k) # [i \in 1..Len(consumed[k].stmt.columns) |-> i - 1]

(***************************************************************************)
(* C4                                                                      *)
(***************************************************************************)
\* C4: errors are per-query: when one query of a module fails, the
\* remaining queries of the module are still processed and the queries
\* prepared before the failing one are retained in the result.
C4_ErrorsPerQuery ==
    (pc = "done" /\ result.tag = "Err") =>
        /\ Len(consumed) = Head(todo).n
        /\ Len(consumed) > 1 =>
             /\ "modules" \in DOMAIN result
             /\ \E m \in Range(result.modules) :
                  \A k \in 1..(Len(consumed) - 1) :
                      \E i \in 1..Len(m.queries) : m.queries[i].name = consumed[k].name

(***************************************************************************)
(* C5                                                                      *)
(***************************************************************************)
\* The step of prepare_module's loop, and the query it handles
QueryStep == pc = "module" /\ Len(consumed') = Len(consumed) + 1
StepQuery == consumed'[Len(consumed')]

ParamsNameOf(q) ==
    IF q.flavor = "Extended" /\ q.params.tag = "Named" THEN q.params.name
    ELSE to_upper_camel_case(q.name) \o ParamsSuffix

\* The names of the bind parameters of a query, in $1..$N order
BindNames(q) ==
    IF q.flavor = "PgCompatible" THEN Names(q.params.list) ELSE q.bind_params

\* The parameters of a query, with the nullability the query gives them
WireParams(q) ==
    {[name |-> BindNames(q)[i], ty |-> q.stmt.params[i],
      is_nullable |-> BindNames(q)[i] \in ParamIdents(q)] : i \in 1..Len(q.stmt.params)}

Shapes(fields) == {Shape(fields[i]) : i \in 1..Len(fields)}

\* A fault that ends prepare_query before it looks at the result columns
EarlyFault(q) ==
    \/ ~q.stmt.ok
    \/ \E i \in 1..Len(q.stmt.params) : q.stmt.params[i] \notin SupportedTypes
    \/ /\ q.flavor = "Extended"
       /\ \/ q.params.tag = "Named"
             /\ \A i \in 1..Len(ParamTypes) : ParamTypes[i].name # q.params.name
          \/ q.row.tag = "Named"
             /\ \A i \in 1..Len(RowTypes) : RowTypes[i].name # q.row.name
          \/ \E id \in ParamIdents(q) : id \notin Range(BindNames(q))

HasDuplicateColumn(q) ==
    \E i, j \in 1..Len(q.stmt.columns) :
        i # j /\ q.stmt.columns[i].name = q.stmt.columns[j].name

\* A fault that ends prepare_query before it interns anything
FaultBeforeInterning(q) ==
    \/ EarlyFault(q)
    \/ HasDuplicateColumn(q)
    \/ \E id \in Range(RowIdents(q)) : id \notin Range(Names(q.stmt.columns))
    \/ \E i \in 1..Len(q.stmt.columns) : q.stmt.columns[i].ty \notin SupportedTypes

\* The submitted row (params) of the query meets a stored struct of the
\* same name with other fields
RowMismatch(q) ==
    /\ q.stmt.columns # <<>>
    /\ \E i \in 1..Len(module.rows) :
         /\ module.rows[i].name = RowNameOf(q)
         /\ Shapes(module.rows[i].fields) # WireColumns(q)

ParamsMismatch(q) ==
    /\ q.stmt.params # <<>>
    /\ \E i \in 1..Len(module.params) :
         /\ module.params[i].name = ParamsNameOf(q)
         /\ Shapes(module.params[i].fields) # WireParams(q)

IsIncompatible(res) ==
    /\ res.tag = "Err"
    /\ res.err.err.tag = "Validation"
    /\ res.err.err.kind = "IncompatibleNamedStruct"

\* C5: interning a row or a params struct under a stored name succeeds only
\* if the submitted fields are the stored fields (same set of name, type,
\* nullability); on a mismatch the query fails with IncompatibleNamedStruct
\* and the entries stored before (fields, is_copy, queries list) are left
\* unchanged.
C5_IncompatibleNamedStruct ==
    [][ QueryStep =>
          LET q == StepQuery
              mismatch == RowMismatch(q) \/ ParamsMismatch(q)
          IN  /\ mismatch => result'.tag = "Err"
              /\ (mismatch /\ ~FaultBeforeInterning(q)) =>
                    /\ IsIncompatible(result')
                    /\ result'.err.err.name =
                          IF RowMismatch(q) THEN RowNameOf(q) ELSE ParamsNameOf(q)
              /\ IsIncompatible(result') =>
                    /\ mismatch
                    /\ SubSeq(module'.rows, 1, Len(module.rows)) = module.rows
                    /\ module'.params = module.params
      ]_vars

\* prepare failed with IncompatibleNamedStruct raised by add_param, the
\* struct of that name being listed by an earlier query
C5_Witness ==
    /\ pc = "done"
    /\ IsIncompatible(result)
    /\ \E i \in 1..Len(module.params) :
         /\ module.params[i].name = result.err.err.name
         /\ module.params[i].queries # <<>>
    /\ Len(module.queries) = Len(consumed)

(***************************************************************************)
(* C6                                                                      *)
(***************************************************************************)
\* C6: for every params struct p of the module and every query index q in
\* p.queries, the params of queries[q] sorted by field name are p.fields.
C6_ParamsBackEdges ==
    module # None =>
        \A i \in 1..Len(module.params) :
            \A j \in 1..Len(module.params[i].queries) :
                LET q == module.params[i].queries[j]
                IN  /\ q \in 0..(Len(module.queries) - 1)
                    /\ SortByName(module.queries[q + 1].params)
                         = module.params[i].fields

\* A params struct listed by two queries that bind its fields in different
\* orders
C6_Witness ==
    /\ module # None
    /\ \E i \in 1..Len(module.params) :
         /\ Len(module.params[i].queries) > 1
         /\ \E j1, j2 \in 1..Len(module.params[i].queries) :
              module.queries[module.params[i].queries[j1] + 1].params
                # module.queries[module.params[i].queries[j2] + 1].params

(***************************************************************************)
(* C7                                                                      *)
(***************************************************************************)
\* C7: add_param(name, query_idx) appends query_idx to the queries list of
\* the params struct called name exactly once: a struct created by the call
\* gets the list [query_idx], an existing struct with matching fields gets
\* the index appended at the end; the call returns the index of the struct
\* in the params map.
C7_AddParamAppends ==
    [][ (QueryStep /\ pc' = "module" /\ StepQuery.stmt.params # <<>>) =>
          LET name == ParamsNameOf(StepQuery)
              query_idx == Len(module.queries)
              old == IndexOfName(module.params, name)
              call == add_param([module' EXCEPT !.params = module.params],
                                name, query_idx)
          IN  /\ IF old = -1
                 THEN /\ Len(module'.params) = Len(module.params) + 1
                      /\ SubSeq(module'.params, 1, Len(module.params)) = module.params
                      /\ module'.params[Len(module'.params)].name = name
                      /\ module'.params[Len(module'.params)].queries = <<query_idx>>
                 ELSE module'.params =
                        [module.params EXCEPT ![old + 1].queries = Append(@, query_idx)]
              /\ call.tag = "Ok"
              /\ call.value = IF old = -1 THEN Len(module.params) ELSE old
      ]_vars

\* A params struct with two back-edges, one from the call that created it
\* and one appended by a later call
C7_Witness ==
    /\ module # None
    /\ pc = "module"
    /\ \E i \in 1..Len(module.params) : module.params[i].queries = <<0, 1>>

(***************************************************************************)
(* C8                                                                      *)
(***************************************************************************)
\* The error is DuplicateSqlColName carrying a repeated column name of q
IsDuplicateError(res, q) ==
    /\ res.tag = "Err"
    /\ res.err.err.tag = "DuplicateSqlColName"
    /\ \E i, j \in 1..Len(q.stmt.columns) :
         /\ i # j
         /\ q.stmt.columns[i].name = res.err.err.name
         /\ q.stmt.columns[j].name = res.err.err.name

\* C8 (as stated): a query whose statement reports two or more result
\* columns with the same name fails with DuplicateSqlColName carrying that
\* name, in both flavours, and nothing is added to the module for it.
C8_DuplicateColumnFails ==
    [][ (QueryStep /\ HasDuplicateColumn(StepQuery)) =>
          /\ IsDuplicateError(result', StepQuery)
          /\ module' = module
      ]_vars

\* C8 (amended): such a query fails and nothing is added to the module for
\* it; the error is DuplicateSqlColName carrying that name unless an earlier
\* step of the same query fails first (an undeclared named struct, an
\* unknown nullable parameter or an unsupported parameter type), in which
\* case the query fails with that step's error.
C8_DuplicateColumnFailsUnlessEarlier ==
    [][ (QueryStep /\ HasDuplicateColumn(StepQuery)) =>
          /\ result'.tag = "Err"
          /\ module' = module
          /\ IsDuplicateError(result', StepQuery) <=> ~EarlyFault(StepQuery)
      ]_vars

\* prepare failed with DuplicateSqlColName on a PgCompatible query that
\* follows a prepared query
C8_Witness ==
    /\ pc = "done"
    /\ result.tag = "Err"
    /\ result.err.err.tag = "DuplicateSqlColName"
    /\ Len(consumed) > 1
    /\ consumed[Len(consumed)].flavor = "PgCompatible"
    /\ Len(module.queries) = Len(consumed) - 1

(***************************************************************************)
(* C9                                                                      *)
(***************************************************************************)
\* C9: for every successfully prepared query, every nullable identifier of
\* its row descriptor names a result column and every nullable identifier
\* of its params descriptor names a bind parameter, and a prepared field has
\* is_nullable = TRUE exactly when its name is among the nullable
\* identifiers of its descriptor.
C9_NullableResolved ==
    \A k \in Prepared :
        LET q == consumed[k]
            pq == module.queries[k]
        IN  /\ Range(RowIdents(q)) \subseteq Range(Names(q.stmt.columns))
            /\ ParamIdents(q) \subseteq Range(BindNames(q))
            /\ Len(pq.params) = Len(BindNames(q))
            /\ \A i \in 1..Len(pq.params) :
                 /\ pq.params[i].name = BindNames(q)[i]
                 /\ pq.params[i].is_nullable <=> (pq.params[i].name \in ParamIdents(q))
            /\ HasRow(k) <=> q.stmt.columns # <<>>
            /\ HasRow(k) =>
                 \A f \in Range(module.rows[RowIdx(k) + 1].fields) :
                     f.is_nullable <=> (f.name \in Range(RowIdents(q)))

\* A prepared query with a nullable column and another with a nullable
\* parameter
C9_Witness ==
    /\ \E k \in Prepared :
         /\ HasRow(k)
         /\ \E f \in Range(module.rows[RowIdx(k) + 1].fields) : f.is_nullable
    /\ \E k \in Prepared :
         \E f \in Range(module.queries[k].params) : f.is_nullable

(***************************************************************************)
(* C10                                                                     *)
(***************************************************************************)
\* UpperCamelCase of the query names of the module, written out
CamelOf(name) ==
    IF name = Nr THEN <<"R">> ELSE <<"A","B">>

\* The params structs that list query k (0-based index k - 1)
ParamsListing(k) ==
    {i \in 1..Len(module.params) : (k - 1) \in Range(module.params[i].queries)}

\* C10: the row and params struct names of a query: for a Named(N)
\* descriptor the name is N; for an Implicit descriptor, and always for a
\* PgCompatible query, the row name is UpperCamelCase(query name) and the
\* params name is UpperCamelCase(query name) followed by "Params".
C10_StructNames ==
    \A k \in Prepared :
        LET q == consumed[k]
            named_row == q.flavor = "Extended" /\ q.row.tag = "Named"
            named_params == q.flavor = "Extended" /\ q.params.tag = "Named"
        IN  /\ HasRow(k) =>
                 module.rows[RowIdx(k) + 1].name =
                     IF named_row THEN q.row.name ELSE CamelOf(q.name)
            /\ \A i \in ParamsListing(k) :
                 module.params[i].name =
                     IF named_params THEN q.params.name
                     ELSE CamelOf(q.name) \o <<"P","a","r","a","m","s">>
            /\ q.stmt.params # <<>> => ParamsListing(k) # {}

\* Prepared queries with a named row, an implicit row of a query name in
\* snake case, and implicit params
C10_Witness ==
    /\ \E k \in Prepared :
         /\ HasRow(k)
         /\ consumed[k].flavor = "Extended" /\ consumed[k].row.tag = "Named"
    /\ \E k \in Prepared :
         /\ consumed[k].name = Nab
         /\ \/ HasRow(k) /\ module.rows[RowIdx(k) + 1].name = <<"A","B">>
            \/ \E i \in ParamsListing(k) :
                 module.params[i].name = <<"A","B","P","a","r","a","m","s">>

(***************************************************************************)
(* C11                                                                     *)
(***************************************************************************)
\* The params (row) descriptor of q is Named(X) with X not declared in the
\* params (row) annotation list
UndeclaredParams(q) ==
    /\ q.flavor = "Extended"
    /\ q.params.tag = "Named"
    /\ \A i \in 1..Len(ParamTypes) : ParamTypes[i].name # q.params.name

UndeclaredRow(q) ==
    /\ q.flavor = "Extended"
    /\ q.row.tag = "Named"
    /\ \A i \in 1..Len(RowTypes) : RowTypes[i].name # q.row.name

IsUnknownNamedStruct(res) ==
    /\ res.tag = "Err"
    /\ res.err.err.tag = "Validation"
    /\ res.err.err.kind = "UnknownNamedStruct"

\* The undeclared name of q that is looked up first
FirstUndeclared(q) == IF UndeclaredParams(q) THEN q.params.name ELSE q.row.name

StateModules ==
    (IF module = None THEN {} ELSE {module})
    \cup Range(modules)
    \cup (IF result.tag = "Ok" THEN Range(result.modules) ELSE {})

\* C15: in every reachable state, the fields of every stored row and of
\* every stored params struct are in strictly ascending order of field name,
\* and the params of every prepared query are the statement's parameters in
\* $1..$N order.
C15_FieldsSorted ==
    /\ \A m \in StateModules :
         /\ \A i \in 1..Len(m.rows) : StrictlySortedByName(m.rows[i].fields)
         /\ \A i \in 1..Len(m.params) : StrictlySortedByName(m.params[i].fields)
    /\ \A k \in Prepared :
         /\ Names(module.queries[k].params) = BindNames(consumed[k])
         /\ Tys(module.queries[k].params) = consumed[k].stmt.params

\* A prepared query binds its parameters in an order that is not the name
\* order, and a prepared query lists its columns in an order that is not
\* the name order
C15_Witness ==
    /\ \E k \in Prepared :
         /\ Len(module.queries[k].params) > 1
         /\ ~StrictlySortedByName(module.queries[k].params)
         /\ ParamsListing(k) # {}
    /\ \E k \in Prepared :
         /\ HasRow(k)
         /\ ~StrictlySortedByName(consumed[k].stmt.columns)

(***************************************************************************)
(* C16                                                                     *)
(***************************************************************************)
\* C16: for every stored row and every stored params struct, is_copy is
\* TRUE exactly when the type of every one of its fields is copy, also after
\* later queries have interned the same name again.
C16_IsCopy ==
    \A m \in StateModules :
        /\ \A i \in 1..Len(m.rows) :
             m.rows[i].is_copy <=> (\A f \in Range(m.rows[i].fields) : TypeIsCopy(f.ty))
        /\ \A i \in 1..Len(m.params) :
             m.params[i].is_copy <=> (\A f \in Range(m.params[i].fields) : TypeIsCopy(f.ty))

\* A row with a copy field and a field that is not copy, interned by two
\* prepared queries
C16_Witness ==
    \E k1, k2 \in Prepared :
        /\ k1 # k2
        /\ HasRow(k1) /\ HasRow(k2)
        /\ RowIdx(k1) = RowIdx(k2)
        /\ ~module.rows[RowIdx(k1) + 1].is_copy
        /\ \E f \in Range(module.rows[RowIdx(k1) + 1].fields) : TypeIsCopy(f.ty)

(***************************************************************************)
(* C18                                                                     *)
(***************************************************************************)
\* The query that prepare_query was called with last
LastQuery == consumed[Len(consumed)]

\* The step of prepare_query that returned the error
FailurePath(e) ==
    CASE e.tag = "Db" -> "statement preparation"
      [] e.tag = "PostgresType" -> "type registration"
      [] e.tag = "DuplicateSqlColName" -> "duplicate columns"
      [] e.kind = "UnknownNamedStruct" -> "named-struct resolution"
      [] e.kind \in {"UnknownNullableColumn", "UnknownNullableParam"} -> "nullable checks"
      [] OTHER -> IF e.name \in {module.rows[i].name : i \in 1..Len(module.rows)}
                     /\ Len(module.queries) < Len(consumed)
                  THEN "row interning" ELSE "params interning"

\* C18: every error returned by prepare carries the name and the source
\* position of the query that was being prepared when the failure occurred
\* and the path of the module that contains the query, on every failure
\* path.
C18_ErrorContext ==
    result.tag = "Err" =>
        /\ result.err.query_name.value = LastQuery.name
        /\ result.err.query_name.line = LastQuery.line
        /\ LastQuery.line = Len(consumed)
        /\ result.err.path = module.path
        /\ module.path = Head(todo).path

\* prepare failed in the interning of the params of the second query of the
\* module
C18_Witness ==
    /\ result.tag = "Err"
    /\ Len(consumed) > 1
    /\ result.err.query_name.line > 1
    /\ FailurePath(result.err.err) = "params interning"

(***************************************************************************)
(* C19                                                                     *)
(***************************************************************************)
\* The text before the detail, written out
ExpectedHeader(name, path, line) ==
    <<"Error while preparing query \"">> \o name
    \o <<"\" [file: \"", path, "\", line: ", ToString(line), "]">>

LastHeader == ExpectedHeader(LastQuery.name, module.path, LastQuery.line)

\* text is header, " (", some detail, ")"
InParentheses(text, header) ==
    /\ Len(text) > Len(header) + 2
    /\ SubSeq(text, 1, Len(header) + 1) = header \o <<" (">>
    /\ text[Len(text)] = ")"

\* C19 (as stated): a preparation error is rendered as
\* Error while preparing query "NAME" [file: "PATH", line: L] (DETAIL)
\* for every variant other than validation errors, and a validation error
\* is rendered with the validation error's own Display.
C19_Rendering ==
    (printed # None /\ printed.tag = "Ok") =>
        IF result.err.err.tag = "Validation"
        THEN printed.text = ValidationDisplay(result.err.err)
        ELSE InParentheses(printed.text, LastHeader)

\* C19 (amended): a database error that carries an error report of the
\* server is rendered as
\* Error while preparing query "NAME" [file: "PATH", line: L] (MESSAGE);
\* DuplicateSqlColName and unsupported-type errors are rendered as
\* Error while preparing query "NAME" [file: "PATH", line: L]:
\* followed by a line break and the variant's message; a validation error is
\* rendered with the validation error's own Display.  (Rendering a database
\* error without a report of the server writes nothing: it panics.)
C19_RenderingByVariant ==
    printed # None =>
        LET e == result.err.err
        IN  CASE e.tag = "Validation" ->
                   /\ printed.tag = "Ok"
                   /\ printed.text = ValidationDisplay(e)
              [] e.tag = "Db" ->
                   IF e.as_db_error.tag = "Some"
                   THEN /\ printed.tag = "Ok"
                        /\ printed.text = LastHeader \o <<" (", e.as_db_error.value, ")">>
                   ELSE printed.tag = "Panic"
              [] e.tag = "DuplicateSqlColName" ->
                   /\ printed.tag = "Ok"
                   /\ printed.text =
                        LastHeader \o <<":\n">>
                        \o <<"Two or more columns have the same name: '">> \o e.name
                        \o <<"'. Consider disambiguing the column names with 'AS' clauses.">>
              [] OTHER ->
                   /\ printed.tag = "Ok"
                   /\ printed.text = LastHeader \o <<":\n">> \o PostgresTypeDisplay(e)

\* The caller has written a DuplicateSqlColName error raised by the second
\* query of the module
C19_Witness ==
    /\ printed # None
    /\ printed.tag = "Ok"
    /\ result.err.err.tag = "DuplicateSqlColName"
    /\ LastQuery.line > 1

(***************************************************************************)
(* C20                                                                     *)
(***************************************************************************)
\* C20: no user input and no database response makes the preparer panic:
\* neither prepare (the assertions and unwraps of add_row and add_param) nor
\* the Display of the error it returned (as_db_error().unwrap()), also for a
\* database error that is not an error report of the server.
C20_NoPanic ==
    /\ result.tag # "Panic"
    /\ printed.tag # "Panic"

(***************************************************************************)
(* C12                                                                     *)
(***************************************************************************)
\* The place of a module name in the lexicographic order of the names of
\* the module files, written out: "a" < "ab" < "b"
Rank(name) ==
    CASE name = <<"a">> -> 1
      [] name = <<"a","b">> -> 2
      [] OTHER -> 3

\* C12: in the Preparation returned by prepare, the modules are in
\* ascending lexicographic order of their names, whatever the order of the
\* input module list; they are the modules prepared from the input.
C12_ModulesSorted ==
    (pc = "done" /\ result.tag = "Ok") =>
        /\ \A i, j \in 1..Len(result.modules) :
             i < j => Rank(result.modules[i].name) < Rank(result.modules[j].name)
        /\ Len(result.modules) = Len(modules)
        /\ Range(result.modules) = Range(modules)

\* prepare returned two modules whose input order was not the name order
C12_Witness ==
    /\ pc = "done"
    /\ result.tag = "Ok"
    /\ Len(modules) > 1
    /\ \E i, j \in 1..Len(modules) :
         i < j /\ Rank(modules[i].name) > Rank(modules[j].name)
    /\ \E i \in 1..Len(modules) : modules[i].queries # <<>>

(***************************************************************************)
(* C13                                                                     *)
(***************************************************************************)
\* The registered types whose entry in the registrar's table is Custom
CustomEntries ==
    {i \in 1..Len(registrar) : CornucopiaType(registrar[i]).variant = "Custom"}

\* The places (schema list, position in the list) of the returned types
TypePlaces ==
    {<<i, j>> \in (1..Len(result.types)) \X (1..Len(registrar)) :
        j <= Len(result.types[i].types)}

\* The registrar entry that the type at a place was prepared from
EntryOf(place) ==
    {k \in CustomEntries :
        /\ PgType(registrar[k]).schema = result.types[place[1]].schema
        /\ PgType(registrar[k]).name = result.types[place[1]].types[place[2]].name}

\* C13: Preparation.types holds exactly one PreparedType for every Custom
\* entry of the registrar's table and none for any other entry; each is in
\* the list keyed by its schema; the types of a schema list and the schema
\* keys are in registration order.
C13_TypesOfRegistrar ==
    (pc = "done" /\ result.tag = "Ok") =>
        /\ \A i, j \in 1..Len(result.types) :
             i # j => result.types[i].schema # result.types[j].schema
        /\ \A place \in TypePlaces : Cardinality(EntryOf(place)) = 1
        /\ \A k \in CustomEntries :
             Cardinality({place \in TypePlaces : k \in EntryOf(place)}) = 1
        /\ \A p1, p2 \in TypePlaces :
             \A k1 \in EntryOf(p1), k2 \in EntryOf(p2) :
                /\ (p1[1] = p2[1] /\ p1[2] < p2[2]) => k1 < k2
                /\ (p1[1] < p2[1] /\ p1[2] = 1 /\ p2[2] = 1) => k1 < k2

\* prepare returned types of two schemas, two of them in one schema list,
\* one of them used by the queries of two modules, from a registrar that
\* also holds entries that are not Custom
C13_Witness ==
    /\ pc = "done"
    /\ result.tag = "Ok"
    /\ Len(result.types) > 1
    /\ \E i \in 1..Len(result.types) : Len(result.types[i].types) > 1
    /\ Cardinality(CustomEntries) < Len(registrar)
    /\ \E ty \in CustomTypes :
         \A m \in Range(modules) :
            \E i \in 1..Len(m.rows) : \E f \in Range(m.rows[i].fields) : f.ty = ty
    /\ Len(modules) > 1

(***************************************************************************)
(* C14                                                                     *)
(***************************************************************************)
\* The returned types
ReturnedTypes ==
    IF result.tag = "Ok"
    THEN UNION {Range(result.types[i].types) : i \in 1..Len(result.types)}
    ELSE {}

\* C14: the fields of a composite PreparedType are in the order in which
\* the database declares the attributes of the composite (n, a, p for
\* "person"), not in name order.
C14_CompositeDeclaredOrder ==
    \A t \in ReturnedTypes :
        t.content.tag = "Composite" =>
            /\ t.name = <<"p","e","r","s","o","n">>
            /\ Names(t.content.fields) = << <<"n">>, <<"a">>, <<"p">> >>
            /\ Tys(t.content.fields) = <<"text", "int4", "mood">>

\* prepare returned the composite type, whose declared order is not the
\* name order, next to a row of the same module that is stored in name order
C14_Witness ==
    /\ pc = "done"
    /\ \E t \in ReturnedTypes :
         /\ t.content.tag = "Composite"
         /\ ~StrictlySortedByName(t.content.fields)
    /\ \E m \in Range(modules) :
         \E i \in 1..Len(m.rows) :
            /\ Len(m.rows[i].fields) > 1
            /\ StrictlySortedByName(m.rows[i].fields)

(***************************************************************************)
(* C17                                                                     *)
(***************************************************************************)
\* The prepared fields of the queries, rows and params of the state
QueryFields ==
    UNION {UNION {Range(m.queries[i].params) : i \in 1..Len(m.queries)}
           \cup UNION {Range(m.rows[i].fields) : i \in 1..Len(m.rows)}
           \cup UNION {Range(m.params[i].fields) : i \in 1..Len(m.params)}
           : m \in StateModules}

\* The prepared fields inside a PreparedType
TypeFields(t) ==
    CASE t.content.tag = "Composite" -> Range(t.content.fields)
      [] t.content.tag = "Domain" -> {t.content.inner}
      [] OTHER -> {}

\* What prepare_type makes of a Custom entry whose type is a domain
DomainAsCustom ==
    prepare_type(registrar, PgType("posint").name,
                 [variant |-> "Custom", pg_ty |-> "posint",
                  struct_name |-> <<"P","o","s","i","n","t">>,
                  is_copy |-> TRUE, is_params |-> TRUE]).value

\* C17: every PreparedField produced by preparation (query params, row
\* columns, domain inner field, composite fields) has is_inner_nullable =
\* FALSE, and every field inside a PreparedType has is_nullable = FALSE.
C17_NullabilityFlags ==
    /\ \A f \in QueryFields : ~f.is_inner_nullable
    /\ \A t \in ReturnedTypes \cup {DomainAsCustom} :
         \A f \in TypeFields(t) : ~f.is_inner_nullable /\ ~f.is_nullable

\* prepare returned the composite type and a module with a nullable
\* parameter of that type and a nullable column
C17_Witness ==
    /\ pc = "done"
    /\ \E t \in ReturnedTypes : t.content.tag = "Composite"
    /\ \E f \in QueryFields : f.is_nullable /\ f.ty = "person"
    /\ \E m \in StateModules :
         \E i \in 1..Len(m.rows) : \E f \in Range(m.rows[i].fields) : f.is_nullable
    /\ TypeFields(DomainAsCustom) # {}

(***************************************************************************)
(* prepare as a function of its inputs                                     *)
(***************************************************************************)
\* prepare_module's loop: prepare_query on each query in turn, leaving at
\* the first error
RECURSIVE PrepareQueries(_, _, _)
PrepareQueries(tmp_prepared_module, type_registrar, queries) ==
    IF queries = <<>>
    THEN [tag |-> "Ok", module |-> tmp_prepared_module, registrar |-> type_registrar]
    ELSE LET r == prepare_query(tmp_prepared_module, type_registrar,
                                ParamTypes, RowTypes, Head(queries))
         IN  IF r.tag # "Ok" THEN r
             ELSE PrepareQueries(r.module, r.registrar, Tail(queries))

\* prepare_module(client, module, registrar)
prepare_module(validated, type_registrar) ==
    PrepareQueries(NewModule(validated.name, validated.path), type_registrar,
                   validated.queries)

\* prepare's loop over the modules, leaving at the first error
RECURSIVE PrepareModules(_, _, _)
PrepareModules(validated, type_registrar, tmp_modules) ==
    IF validated = <<>>
    THEN [tag |-> "Ok", modules |-> tmp_modules, registrar |-> type_registrar]
    ELSE LET r == prepare_module(Head(validated), type_registrar)
         IN  IF r.tag # "Ok" THEN r
             ELSE PrepareModules(Tail(validated), r.registrar,
                                 Append(tmp_modules, r.module))

\* prepare(client, modules): the Preparation, or the first error
prepare(validated) ==
    LET r == PrepareModules(validated, <<>>, <<>>)
    IN  IF r.tag = "Ok"
        THEN [tag |-> "Ok", modules |-> SortByName(r.modules),
              types |-> PrepareTypes(r.registrar, 1, <<>>)]
        ELSE IF r.tag = "Err" THEN [tag |-> "Err", err |-> r.err]
        ELSE [tag |-> "Panic"]

FirstUserOfRow(i) ==
    LET users == {k \in 1..Len(module.queries) : HasRow(k) /\ RowIdx(k) = i}
    IN  IF users = {} THEN 0 ELSE CHOOSE k \in users : \A j \in users : k <= j

MapNames(map) == [i \in 1..Len(map) |-> map[i].name]

IsPrefix(s, t) == Len(s) <= Len(t) /\ SubSeq(t, 1, Len(s)) = s

\* The queries in file order, the rows and params in the order of the
\* first query that uses them
FileOrder ==
    module # None =>
        /\ Prepared \subseteq 1..Len(module.queries)
        /\ \A k \in 1..Len(module.queries) : module.queries[k].name = consumed[k].name
        /\ \A i, j \in 1..Len(module.rows) :
             i < j => /\ FirstUserOfRow(i - 1) > 0
                      /\ FirstUserOfRow(i - 1) < FirstUserOfRow(j - 1)
        /\ \A i, j \in 1..Len(module.params) :
             i < j => /\ module.params[i].queries # <<>>
                      /\ module.params[j].queries # <<>>
                      /\ module.params[i].queries[1] < module.params[j].queries[1]

\* C22: within a module the queries are processed in file order: the i-th
\* query of the module has index i in the queries map, rows and params are
\* in their maps in the order of the first query that uses them, the three
\* maps only grow at their ends, and an index keeps denoting the same entry.
C22_FileOrder ==
    [][ /\ FileOrder'
        /\ QueryStep =>
             /\ IsPrefix(MapNames(module.queries), MapNames(module'.queries))
             /\ IsPrefix(module.queries, module'.queries)
             /\ IsPrefix(module.rows, module'.rows)
             /\ IsPrefix(MapNames(module.params), MapNames(module'.params))
             /\ \A i \in 1..Len(module.params) :
                  /\ module'.params[i].fields = module.params[i].fields
                  /\ IsPrefix(module.params[i].queries, module'.params[i].queries)
      ]_vars

\* Two prepared queries, each the first user of a row of its own
C22_Witness ==
    /\ pc = "module"
    /\ Len(module.queries) = 2
    /\ Len(module.rows) = 2
    /\ FirstUserOfRow(0) = 1
    /\ FirstUserOfRow(1) = 2

\* Two prepared queries, each the first user of a params struct of its own
C22_WitnessParams ==
    /\ pc = "module"
    /\ Len(module.queries) = 2
    /\ Len(module.params) = 2

(***************************************************************************)
(* C23                                                                     *)
(***************************************************************************)
\* The params structs of the module that list query k (1-based position)
ListingParams(k) ==
    {i \in 1..Len(module.params) : (k - 1) \in Range(module.params[i].queries)}

RowAndParamsPresence ==
    \A k \in Prepared :
        /\ ~HasRow(k) <=> consumed[k].stmt.columns = <<>>
        /\ ListingParams(k) # {} <=> consumed[k].stmt.params # <<>>
        /\ module.queries[k].params # <<>> <=> consumed[k].stmt.params # <<>>

IsValidation(res, kind) ==
    /\ res.tag = "Err"
    /\ res.err.err.tag = "Validation"
    /\ res.err.err.kind = kind

\* The step registered the types of the parameters of q and nothing else
OnlyParamsRegistered(q) ==
    /\ IsPrefix(registrar, registrar')
    /\ Range(registrar') = Range(registrar) \cup Range(q.stmt.params)

\* C24 (as stated): the duplicate-column check and the nullable checks
\* precede every call of the type registrar for the query: a query with a
\* repeated result column name fails with DuplicateSqlColName, whatever
\* other faults it has, and none of its types has been registered.
C24_ChecksBeforeRegistrar ==
    [][ (QueryStep /\ HasDuplicateColumn(StepQuery)) =>
          /\ IsDuplicateError(result', StepQuery)
          /\ registrar' = registrar
      ]_vars

\* C24 (amended): the unknown-nullable-parameter check precedes every call
\* of the type registrar; the types of the parameters are registered next;
\* the duplicate-column check and the nullable-column check follow, before
\* the type of any column is registered.  A query with a repeated column
\* name fails with DuplicateSqlColName exactly when no earlier step fails,
\* and then the types of its parameters have been registered.
C24_ChecksAfterParams ==
    [][ QueryStep =>
          LET q == StepQuery
          IN  /\ IsValidation(result', "UnknownNullableParam") => registrar' = registrar
              /\ ( \/ IsDuplicateError(result', q)
                   \/ IsValidation(result', "UnknownNullableColumn") )
                    => OnlyParamsRegistered(q)
              /\ HasDuplicateColumn(q) =>
                    /\ result'.tag = "Err"
                    /\ IsDuplicateError(result', q) <=> ~EarlyFault(q)
                    /\ IsDuplicateError(result', q) \/ registrar' = registrar
                          \/ \E i \in 1..Len(q.stmt.params) :
                                q.stmt.params[i] \notin SupportedTypes
      ]_vars

\* The first query of the module failed with DuplicateSqlColName and the
\* type of its parameter is in the registrar
C24_Witness ==
    /\ pc = "done"
    /\ result.tag = "Err"
    /\ result.err.err.tag = "DuplicateSqlColName"
    /\ Len(consumed) = 1
    /\ consumed[1].stmt.params # <<>>
    /\ registrar = consumed[1].stmt.params

(***************************************************************************)
(* C25                                                                     *)
(***************************************************************************)
ColIdxPermutation ==
    \A k \in Prepared :
        HasRow(k) =>
            LET n == Len(consumed[k].stmt.columns)
            IN  /\ Len(ColIdx(k)) = n
                /\ Range(ColIdx(k)) = 0..(n - 1)
                /\ \A i, j \in 1..n : i # j => ColIdx(k)[i] # ColIdx(k)[j]

\* C25: after every step of prepare_module's loop, for every PreparedQuery
\* with a row, col_idx is a permutation of 0..n-1, n being the number of
\* result columns of the statement: no wire position occurs twice and none
\* is missing.
C25_ColIdxPermutation == [][QueryStep => ColIdxPermutation']_vars

\* A query that shares a stored row of three columns and reads its first
\* field from another wire position than 0
C25_Witness ==
    \E k \in Prepared :
        /\ HasRow(k)
        /\ ~FirstUse(k)
        /\ Len(consumed[k].stmt.columns) = 3
        /\ ColIdx(k)[1] # 0

(***************************************************************************)
(* C26                                                                     *)
(***************************************************************************)
\* The links between the queries, rows and params of a prepared module m
LinksClosed(m) ==
    /\ \A i \in 1..Len(m.rows) :
         \E k \in 1..Len(m.queries) :
            m.queries[k].row.tag = "Some" /\ m.queries[k].row.value[1] = i - 1
    /\ \A i \in 1..Len(m.params) :
         LET qs == m.params[i].queries
         IN  /\ qs # <<>>
             /\ \A j \in 1..Len(qs) : qs[j] \in 0..(Len(m.queries) - 1)
             /\ \A j1, j2 \in 1..Len(qs) : j1 < j2 => qs[j1] < qs[j2]
    /\ \A k \in 1..Len(m.queries) :
         LET places == {<<i, j>> \in (1..Len(m.params)) \X (1..Len(m.queries)) :
                          /\ j <= Len(m.params[i].queries)
                          /\ m.params[i].queries[j] = k - 1}
         IN  Cardinality(places) = IF m.queries[k].params # <<>> THEN 1 ELSE 0

LinksClosedEverywhere ==
    /\ \A i \in 1..Len(modules) : LinksClosed(modules[i])
    /\ (module # None /\ ~Failed) => LinksClosed(module)

\* C26: after a module has been prepared successfully (and after every
\* successful step of its preparation) every row of the rows map is
\* referenced by the row index of at least one query, every params struct
\* has a non-empty, strictly increasing queries list of valid query
\* indices, and every query with at least one parameter occurs in the
\* queries list of exactly one params struct, exactly once.
C26_LinksClosed == [][LinksClosedEverywhere']_vars

\* A prepared module of two queries with one params struct listing both,
\* pushed by prepare
C26_Witness ==
    \E i \in 1..Len(modules) :
        /\ Len(modules[i].queries) = 2
        /\ Len(modules[i].params) = 1
        /\ modules[i].params[1].queries = <<0, 1>>

(***************************************************************************)
(* C27                                                                     *)
(***************************************************************************)
\* C27 (as stated): when the processing of a query fails with
\* IncompatibleNamedStruct, raised while interning its row or its params,
\* the queries, rows and params maps of the module are as they were before
\* the query was processed.
C27_FailureLeavesModule ==
    [][ (QueryStep /\ IsIncompatible(result')) =>
          /\ module'.queries = module.queries
          /\ module'.rows = module.rows
          /\ module'.params = module.params
      ]_vars

\* What a query whose params do not fit the stored struct leaves in the
\* module: the query itself at the end of the queries map and, if its row
\* name was new, its row at the end of the rows map
LeftByParamsFailure(q) ==
    /\ module'.params = module.params
    /\ Len(module'.queries) = Len(module.queries) + 1
    /\ IsPrefix(module.queries, module'.queries)
    /\ module'.queries[Len(module'.queries)].name = q.name
    /\ IF q.stmt.columns # <<>> /\ IndexOfName(module.rows, RowNameOf(q)) = -1
       THEN /\ Len(module'.rows) = Len(module.rows) + 1
            /\ IsPrefix(module.rows, module'.rows)
            /\ module'.rows[Len(module'.rows)].name = RowNameOf(q)
            /\ module'.queries[Len(module'.queries)].row.tag = "Some"
            /\ module'.queries[Len(module'.queries)].row.value[1] = Len(module.rows)
       ELSE module'.rows = module.rows

\* C27 (amended): when the processing of a query fails with
\* IncompatibleNamedStruct raised while interning its row, the three maps
\* are as they were before; when it is raised while interning its params,
\* the params map is as it was before, but the failing query has been
\* added to the queries map and, if its row name was new, its row to the
\* rows map.
C27_FailureFrame ==
    [][ (QueryStep /\ IsIncompatible(result')) =>
          IF RowMismatch(StepQuery)
          THEN /\ module'.queries = module.queries
               /\ module'.rows = module.rows
               /\ module'.params = module.params
          ELSE LeftByParamsFailure(StepQuery)
      ]_vars

\* prepare failed with IncompatibleNamedStruct raised by add_param on the
\* second query, whose row is the only row of the module
C27_Witness ==
    /\ pc = "done"
    /\ IsIncompatible(result)
    /\ Len(consumed) = 2
    /\ Len(module.queries) = 2
    /\ consumed[1].stmt.columns = <<>>
    /\ Len(module.rows) = 1
    /\ module.rows[1].name = RowNameOf(consumed[2])

(***************************************************************************)
(* C28                                                                     *)
(***************************************************************************)
\* One entry per name in each map, shared by the prepared queries that ask
\* for the name, whose fields are the entry's fields
OneEntryPerName ==
    module # None =>
        /\ \A i, j \in 1..Len(module.rows) :
             i # j => module.rows[i].name # module.rows[j].name
        /\ \A i, j \in 1..Len(module.params) :
             i # j => module.params[i].name # module.params[j].name
        /\ \A k \in Prepared :
             /\ HasRow(k) =>
                  /\ module.rows[RowIdx(k) + 1].name = RowNameOf(consumed[k])
                  /\ Shapes(module.rows[RowIdx(k) + 1].fields) = WireColumns(consumed[k])
             /\ \A i \in ListingParams(k) :
                  /\ module.params[i].name = ParamsNameOf(consumed[k])
                  /\ Shapes(module.params[i].fields) = WireParams(consumed[k])

\* C28: interning is keyed by the struct name alone, whether the name was
\* declared or synthesized from the query name: queries of one module that
\* ask for the same row (or params) name share one entry when their fields
\* are equal, the later query fails with IncompatibleNamedStruct when they
\* differ, and a row and a params struct of the same name never interfere.
C28_KeyedByName ==
    [][ QueryStep =>
          LET q == StepQuery
          IN  /\ OneEntryPerName'
              /\ ~FaultBeforeInterning(q) =>
                    /\ IsIncompatible(result') <=> (RowMismatch(q) \/ ParamsMismatch(q))
                    /\ ~IsIncompatible(result') => pc' = "module"
      ]_vars

\* Two prepared queries share the row R: one names the declared struct R,
\* the other is the query r whose synthesized row name is R
C28_Witness ==
    \E k1, k2 \in Prepared :
        /\ k1 # k2
        /\ HasRow(k1) /\ HasRow(k2)
        /\ RowIdx(k1) = RowIdx(k2)
        /\ consumed[k1].flavor = "Extended"
        /\ consumed[k1].row.tag = "Named"
        /\ consumed[k2].name = Nr
        /\ Len(module.rows) = 1

\* A row and a params struct of the same name with different fields
C28_WitnessRowAndParams ==
    /\ module # None
    /\ ~Failed
    /\ \E i \in 1..Len(module.rows) :
         \E j \in 1..Len(module.params) :
            /\ module.rows[i].name = module.params[j].name
            /\ Shapes(module.rows[i].fields) # Shapes(module.params[j].fields)

\* The later of two queries whose names have the same UpperCamelCase form
\* failed because its row has other fields
C28_WitnessCamel ==
    /\ pc = "done"
    /\ IsIncompatible(result)
    /\ Len(consumed) = 2
    /\ consumed[1].name # consumed[2].name
    /\ consumed[1].row.tag # "Named"
    /\ consumed[2].row.tag # "Named"
    /\ result.err.err.name = to_upper_camel_case(consumed[1].name)
    /\ result.err.err.name = to_upper_camel_case(consumed[2].name)

(***************************************************************************)
(* C29                                                                     *)
(***************************************************************************)
\* The orders in which the modules given to this run can be supplied
Orders == {ms \in InjSeqs(Range(inputs)) : Len(ms) = Len(inputs)}

\* C29: for modules with pairwise distinct names the Preparation returned
\* by prepare (the module list and the lists of types of each schema, with
\* their order) is the same for every order in which the modules are
\* supplied.
C29_OrderIndependent ==
    (pc = "done" /\ result.tag = "Ok") =>
        \A ms \in Orders : prepare(ms) = result

\* The part of C29 that holds: the module list of the Preparation is the
\* same for every order of the modules
C29_ModulesOrderIndependent ==
    (pc = "done" /\ result.tag = "Ok") =>
        \A ms \in Orders :
            /\ prepare(ms).tag = "Ok"
            /\ prepare(ms).modules = result.modules

(***************************************************************************)
(* The integration test driver                                             *)
(***************************************************************************)
MaxFiles == 2
MaxTests == 2

\* The directory the driver is started in, and the directories it enters
Home == "integration"
TempDir == "temp_dir"
CodegenTest == "../codegen_test"
Example == "../examples/name"

\* The test functions, in the order test calls them
TestFunctions == <<"run_errors_test", "run_codegen_test", "run_examples_test">>

\* A temporary directory as tempfile::tempdir creates it: nothing in it
NoTree == [migrations |-> None, queries |-> None]

\* The prepare variables do not take part in the driver's steps
PrepareIdle ==
    UNCHANGED <<pc, todo, consumed, module, registrar, modules, result, printed, inputs>>

\* The ? operator: the function returns Err at once
ReturnErr(d) == [d EXCEPT !.at = "returned", !.returned = [tag |-> "Err"]]

\* Ok(successful)
ReturnOk(d) ==
    [d EXCEPT !.at = "returned",
              !.returned = [tag |-> "Ok", value |-> d.successful]]

\* client.batch_execute("DROP SCHEMA public CASCADE;CREATE SCHEMA public;")
reset_db(d) == [d EXCEPT !.db = "reset"]

\* std::env::set_current_dir(dir)
set_current_dir(d, dir) == [d EXCEPT !.cwd = dir]

\* A fallible call followed by ?: at position at of function fn, the call
\* succeeds and leaves the driver as after, or fails and fn returns Err
Try(fn, at, after) ==
    /\ driver # None
    /\ driver.fn = fn
    /\ driver.at = at
    /\ \E ok \in BOOLEAN :
         driver' = IF ok THEN after ELSE ReturnErr(driver)
    /\ PrepareIdle

\* The entry of a test function: successful = true, original_pwd saved
Enter(fn, at) ==
    /\ driver # None
    /\ driver.fn = fn
    /\ driver.at = "entry"
    /\ driver' = [driver EXCEPT !.successful = TRUE, !.original_pwd = driver.cwd,
                                !.at = at]
    /\ PrepareIdle

\* cargo run: a failing status clears successful
Run(d, at) ==
    {[d EXCEPT !.successful = d.successful /\ status, !.at = at] :
        status \in BOOLEAN}

\* The driver starts in its home directory, with or without --apply, and
\* is about to call the first test function
InitDriver ==
    /\ Start
    /\ todo = <<>>
    /\ \E apply \in BOOLEAN :
         driver = [fn |-> "test", at |-> TestFunctions[1], apply |-> apply,
                   cwd |-> Home, original_pwd |-> Home, entry |-> Home,
                   successful |-> TRUE, returned |-> None,
                   files |-> 0, tests |-> 0, db |-> "used", tree |-> NoTree]

\* test calls the next test function
TestCall ==
    /\ driver # None
    /\ driver.fn = "test"
    /\ driver.at \in Range(TestFunctions)
    /\ driver' = [driver EXCEPT !.fn = driver.at, !.at = "entry",
                                !.entry = driver.cwd, !.returned = None]
    /\ PrepareIdle

\* The test function returned to test: Err makes unwrap panic and
\* Ok(false) ends the && chain, both lead to the cleanup; Ok(true) leads to
\* the next test function, if there is one
TestReturn ==
    /\ driver # None
    /\ driver.at = "returned"
    /\ LET i == CHOOSE j \in 1..Len(TestFunctions) : TestFunctions[j] = driver.fn
           goes_on == /\ driver.returned.tag = "Ok"
                      /\ driver.returned.value
                      /\ i < Len(TestFunctions)
       IN  driver' = [driver EXCEPT !.fn = "test",
                                    !.at = IF goes_on THEN TestFunctions[i + 1]
                                           ELSE "cleanup"]
    /\ PrepareIdle

\* run_errors_test
ErrorsEnter == Enter("run_errors_test", "read_dir")

ErrorsReadDir ==
    \E n \in 0..MaxFiles :
        Try("run_errors_test", "read_dir",
            [driver EXCEPT !.files = n, !.at = "next_file"])

\* The loop over the fixture files: after the last file Ok(successful),
\* else the file is read and parsed into its tests
ErrorsNextFile ==
    IF driver # None /\ driver.files = 0
    THEN /\ driver.fn = "run_errors_test"
         /\ driver.at = "next_file"
         /\ driver' = ReturnOk(driver)
         /\ PrepareIdle
    ELSE \E n \in 0..MaxTests :
            Try("run_errors_test", "next_file",
                [driver EXCEPT !.files = @ - 1, !.tests = n, !.at = "next_test"])

\* The loop over the tests of the file: after the last test the apply
\* step, else a new temporary directory
ErrorsNextTest ==
    IF driver # None /\ driver.tests = 0
    THEN /\ driver.fn = "run_errors_test"
         /\ driver.at = "next_test"
         /\ driver' = [driver EXCEPT !.at = "apply"]
         /\ PrepareIdle
    ELSE Try("run_errors_test", "next_test",
             [driver EXCEPT !.tree = NoTree, !.at = "reset_db"])

ErrorsResetDb ==
    Try("run_errors_test", "reset_db",
        [reset_db(driver) EXCEPT !.at = "set_current_dir"])

ErrorsSetCurrentDir ==
    Try("run_errors_test", "set_current_dir",
        [set_current_dir(driver, TempDir) EXCEPT !.at = "migrations"])

\* create_dir("migrations") and the test's migration file, if it has one;
\* create_dir fails on a directory that exists
ErrorsMigrations ==
    \E migration \in {{}, {"1653210840_first.sql"}} :
        /\ Try("run_errors_test", "migrations",
               [driver EXCEPT !.tree.migrations = Some(migration), !.at = "queries"])
        /\ driver.tree.migrations = None \/ driver'.at = "returned"

\* create_dir("queries") and the test's query file, if it has one
ErrorsQueries ==
    \E query \in {{}, {"module_1.sql"}} :
        /\ Try("run_errors_test", "queries",
               [driver EXCEPT !.tree.queries = Some(query), !.at = "codegen"])
        /\ driver.tree.queries = None \/ driver'.at = "returned"

\* The codegen closure, whose error is kept for the comparison with the
\* expected error of the test
ErrorsCodegen ==
    /\ driver # None
    /\ driver.fn = "run_errors_test"
    /\ driver.at = "codegen"
    /\ \E matches \in BOOLEAN :
         driver' = [driver EXCEPT !.db = "used",
                                  !.successful = driver.successful /\ matches,
                                  !.at = "restore"]
    /\ PrepareIdle

ErrorsRestore ==
    Try("run_errors_test", "restore",
        [set_current_dir(driver, driver.original_pwd) EXCEPT
            !.tests = @ - 1, !.at = "next_test"])

\* With --apply the test descriptor is written back
ErrorsApply ==
    IF driver # None /\ ~driver.apply
    THEN /\ driver.fn = "run_errors_test"
         /\ driver.at = "apply"
         /\ driver' = [driver EXCEPT !.at = "next_file"]
         /\ PrepareIdle
    ELSE Try("run_errors_test", "apply", [driver EXCEPT !.at = "next_file"])

\* run_codegen_test
CodegenEnter == Enter("run_codegen_test", "set_current_dir")

CodegenSetCurrentDir ==
    Try("run_codegen_test", "set_current_dir",
        [set_current_dir(driver, CodegenTest) EXCEPT !.at = "reset_db"])

CodegenResetDb ==
    Try("run_codegen_test", "reset_db", [reset_db(driver) EXCEPT !.at = "generate"])

\* run_migrations and the two generate_live calls
CodegenGenerate ==
    Try("run_codegen_test", "generate", [driver EXCEPT !.db = "used", !.at = "run"])

CodegenRun ==
    \E after \in Run(driver, "restore") : Try("run_codegen_test", "run", after)

CodegenRestore ==
    Try("run_codegen_test", "restore",
        ReturnOk(set_current_dir(driver, driver.original_pwd)))

\* run_examples_test
ExamplesEnter == Enter("run_examples_test", "read_dir")

ExamplesReadDir ==
    \E n \in 0..MaxFiles :
        Try("run_examples_test", "read_dir",
            [driver EXCEPT !.files = n, !.at = "next_file"])

ExamplesNextFile ==
    IF driver # None /\ driver.files = 0
    THEN /\ driver.fn = "run_examples_test"
         /\ driver.at = "next_file"
         /\ driver' = ReturnOk(driver)
         /\ PrepareIdle
    ELSE Try("run_examples_test", "next_file",
             [driver EXCEPT !.files = @ - 1, !.at = "set_current_dir"])

ExamplesSetCurrentDir ==
    Try("run_examples_test", "set_current_dir",
        [set_current_dir(driver, Example) EXCEPT !.at = "reset_db"])

ExamplesResetDb ==
    Try("run_examples_test", "reset_db", [reset_db(driver) EXCEPT !.at = "generate"])

ExamplesGenerate ==
    Try("run_examples_test", "generate", [driver EXCEPT !.db = "used", !.at = "run"])

ExamplesRun ==
    \E after \in Run(driver, "restore") : Try("run_examples_test", "run", after)

ExamplesRestore ==
    Try("run_examples_test", "restore",
        [set_current_dir(driver, driver.original_pwd) EXCEPT !.at = "next_file"])

NextDriver ==
    \/ TestCall
    \/ TestReturn
    \/ ErrorsEnter
    \/ ErrorsReadDir
    \/ ErrorsNextFile
    \/ ErrorsNextTest
    \/ ErrorsResetDb
    \/ ErrorsSetCurrentDir
    \/ ErrorsMigrations
    \/ ErrorsQueries
    \/ ErrorsCodegen
    \/ ErrorsRestore
    \/ ErrorsApply
    \/ CodegenEnter
    \/ CodegenSetCurrentDir
    \/ CodegenResetDb
    \/ CodegenGenerate
    \/ CodegenRun
    \/ CodegenRestore
    \/ ExamplesEnter
    \/ ExamplesReadDir
    \/ ExamplesNextFile
    \/ ExamplesSetCurrentDir
    \/ ExamplesResetDb
    \/ ExamplesGenerate
    \/ ExamplesRun
    \/ ExamplesRestore

SpecDriver == InitDriver /\ [][NextDriver]_vars

(***************************************************************************)
(* C30                                                                     *)
(***************************************************************************)
\* A test function has returned to test
Returned == driver # None /\ driver.at = "returned"

\* A fixture test of run_errors_test is about to write its files
TestStarts ==
    driver # None /\ driver.fn = "run_errors_test" /\ driver.at = "migrations"

\* A fixture test starts on a reset schema, in a directory without
\* migrations and queries
StartsFresh == TestStarts => (driver.db = "reset" /\ driver.tree = NoTree)

\* C30: whenever run_errors_test, run_codegen_test or run_examples_test
\* returns, with Ok or with Err, the current working directory is the one
\* it was on entry, and every fixture test of run_errors_test starts with a
\* freshly reset database schema and fresh, empty migrations and queries
\* directories.
C30_DriverFrame ==
    /\ Returned => driver.cwd = driver.entry
    /\ StartsFresh

\* The part of C30 that holds: a test function that returns Ok leaves the
\* current working directory as it was on entry, and every fixture test
\* starts fresh
C30_DriverFrameOnOk ==
    /\ (Returned /\ driver.returned.tag = "Ok") => driver.cwd = driver.entry
    /\ StartsFresh

\* run_codegen_test returned Err from another directory than the one it was
\* entered in
C30_ErrLeavesDirectory ==
    /\ Returned
    /\ driver.fn = "run_codegen_test"
    /\ driver.returned.tag = "Err"
    /\ driver.cwd = CodegenTest
    /\ driver.entry = Home

====
